---- MODULE Spec2Model ----
(***************************************************************************)
(* Apple Notes content decoder (apple-notes/scripts/export_notes.py):      *)
(* read_varint, extract_text_from_protobuf, decode_note_content and        *)
(* format_as_markdown as a state machine with one action per loop          *)
(* iteration, and the file naming of main.  Byte buffers are               *)
(* sequences of 0..255, Python strings are sequences of code points, and   *)
(* positions are 0-based as in the source.                                 *)
(***************************************************************************)
EXTENDS Integers, Sequences, FiniteSets, TLC

VARIABLES
    shape,          \* how the argument was built (never read by the program)
    caller,         \* which function the caller invoked: "extract" or "decode"
    data,           \* the argument: NoneVal or Bytes(b)
    pc,             \* position in the code
    buf,            \* extract_text_from_protobuf: data after the gzip step
    pos,            \* outer cursor
    value,          \* payload of the current outer length-delimited field
    inner_pos,      \* cursor in value
    inner_value,    \* payload of the current inner length-delimited field
    text_pos,       \* cursor in inner_value
    text_content,   \* NoneVal or Str(decoded)
    ext_result,     \* what extract_text_from_protobuf returned (or raised)
    decoded,        \* fallback: data.decode('utf-8', errors='ignore')
    readable_parts, \* fallback: re.findall(...)
    part_idx,       \* fallback: 1-based index of the next part of the for loop
    cleaned_parts,  \* fallback: accepted parts
    garbage_streak, \* fallback: consecutive garbage parts
    result,         \* what decode_note_content returned
    text,           \* format_as_markdown: the argument, NoneVal or Str(s)
    lines,          \* text.split('\n')
    line_idx,       \* i of `for i, line in enumerate(lines)`
    formatted_lines,
    prev_was_blank,
    md_result,      \* what format_as_markdown returned
    notes,          \* main: the rows that reach the file naming, in query order
    note_idx,       \* 1-based index of the note of the for loop
    existing,       \* the paths under the export directory before the run (history)
    fs,             \* the paths that exist under the export directory
    exported,       \* the paths written so far; exported_count is its length
    failed_count,
    folder_name,
    filename,
    counter

vars == <<shape, caller, data, pc, buf, pos, value, inner_pos, inner_value, text_pos,
          text_content, ext_result, decoded, readable_parts, part_idx,
          cleaned_parts, garbage_streak, result, text, lines, line_idx,
          formatted_lines, prev_was_blank, md_result, notes, note_idx, existing, fs,
          exported, failed_count, folder_name, filename, counter>>

exportVars == <<notes, note_idx, existing, fs, exported, failed_count, folder_name,
                filename, counter>>

----------------------------------------------------------------------------
(* Python values *)

NoneVal == [tag |-> "None", val |-> <<>>]
Bytes(b) == [tag |-> "bytes", val |-> b]
Str(s) == [tag |-> "str", val |-> s]
Raised == [tag |-> "raise", val |-> <<>>]

\* Truthiness of an optional string: `if text_content:` / `if text and ...`
Truthy(v) == v.tag = "str" /\ Len(v.val) > 0

Min(a, b) == IF a < b THEN a ELSE b

\* A slice that is empty when it reaches beyond the end of the data
SliceOrNothing(d, a, b) == IF b > Len(d) THEN <<>> ELSE SubSeq(d, a + 1, b)

\* data[a:b] with 0 <= a: Python clamps both ends to the length
Slice(d, a, b) == SubSeq(d, a + 1, Min(b, Len(d)))

Zeros(n) == [i \in 1..n |-> 0]

\* The least element of a non-empty set of integers
MinOf(S) == CHOOSE k \in S : \A j \in S : k <= j

----------------------------------------------------------------------------
(* read_varint *)

RECURSIVE VarintLoop(_, _, _, _)
VarintLoop(d, p, res, shift) ==
    IF p < Len(d)
    THEN LET b == d[p + 1]
             r == res + (b % 128) * (2 ^ shift)
         IN  IF b < 128
             THEN [value |-> r, pos |-> p + 1]
             ELSE VarintLoop(d, p + 1, r, shift + 7)
    ELSE [value |-> res, pos |-> p]

\* A read_varint whose `pos += 1` comes after the test of the high bit, so
\* that the terminating byte is not consumed
read_varintLateIncrement(d, p) ==
    LET r == VarintLoop(d, p, 0, 0) IN
    IF r.pos > p /\ d[r.pos] < 128 THEN [r EXCEPT !.pos = r.pos - 1] ELSE r

\* A read_varint that keeps the first group of 7 bits only
read_varintFirstGroup(d, p) ==
    [value |-> VarintLoop(d, p, 0, 0).value % 128, pos |-> VarintLoop(d, p, 0, 0).pos]

read_varint(d, p) == VarintLoop(d, p, 0, 0)

----------------------------------------------------------------------------
(* gzip: the library is modelled by a frame of the magic bytes, the body   *)
(* (each payload byte b stored as 255 - b) and a one-byte length trailer;  *)
(* gzip.decompress raises when the trailer does not match the body.        *)

GzipMagic == <<31, 139>>

HasGzipMagic(d) == Len(d) >= 2 /\ SubSeq(d, 1, 2) = GzipMagic

GzipCompress(p) ==
    GzipMagic \o [i \in 1..Len(p) |-> 255 - p[i]] \o <<Len(p) % 256>>

GzipDecompress(d) ==
    IF Len(d) >= 3 /\ SubSeq(d, 1, 2) = GzipMagic /\ d[Len(d)] = (Len(d) - 3) % 256
    THEN Bytes([i \in 1..(Len(d) - 3) |-> 255 - d[i + 2]])
    ELSE Raised

----------------------------------------------------------------------------
(* UTF-8 decoding (bytes.decode('utf-8', errors=...)) *)

IsCont(d, i) == i <= Len(d) /\ d[i] >= 128 /\ d[i] <= 191

\* Lower and upper bound of the second byte after lead byte b0
SecondLo(b0) == IF b0 = 224 THEN 160 ELSE IF b0 = 240 THEN 144 ELSE 128
SecondHi(b0) == IF b0 = 237 THEN 159 ELSE IF b0 = 244 THEN 143 ELSE 191
IsSecond(d, i, b0) == i <= Len(d) /\ d[i] >= SecondLo(b0) /\ d[i] <= SecondHi(b0)

\* Decode one unit at 1-based index i: ok with the code point and its byte
\* count, or not ok with the number of bytes of the invalid subpart.
Utf8Unit(d, i) ==
    LET b0 == d[i] IN
    IF b0 < 128 THEN [ok |-> TRUE, cp |-> b0, n |-> 1]
    ELSE IF b0 >= 194 /\ b0 <= 223 THEN
        IF IsCont(d, i + 1)
        THEN [ok |-> TRUE, cp |-> (b0 - 192) * 64 + (d[i + 1] - 128), n |-> 2]
        ELSE [ok |-> FALSE, cp |-> 0, n |-> 1]
    ELSE IF b0 >= 224 /\ b0 <= 239 THEN
        IF ~IsSecond(d, i + 1, b0) THEN [ok |-> FALSE, cp |-> 0, n |-> 1]
        ELSE IF ~IsCont(d, i + 2) THEN [ok |-> FALSE, cp |-> 0, n |-> 2]
        ELSE [ok |-> TRUE,
              cp |-> (b0 - 224) * 4096 + (d[i + 1] - 128) * 64 + (d[i + 2] - 128),
              n |-> 3]
    ELSE IF b0 >= 240 /\ b0 <= 244 THEN
        IF ~IsSecond(d, i + 1, b0) THEN [ok |-> FALSE, cp |-> 0, n |-> 1]
        ELSE IF ~IsCont(d, i + 2) THEN [ok |-> FALSE, cp |-> 0, n |-> 2]
        ELSE IF ~IsCont(d, i + 3) THEN [ok |-> FALSE, cp |-> 0, n |-> 3]
        ELSE [ok |-> TRUE,
              cp |-> (b0 - 240) * 262144 + (d[i + 1] - 128) * 4096
                     + (d[i + 2] - 128) * 64 + (d[i + 3] - 128),
              n |-> 4]
    ELSE [ok |-> FALSE, cp |-> 0, n |-> 1]

\* U+FFFD, the replacement character of errors='replace'
ReplacementChar == <<65533>>

\* A byte that is not a continuation byte always starts a unit.  A
\* continuation byte is part of the unit of the lead byte up to three places
\* before it when that unit extends over it; otherwise it is an invalid unit
\* of its own.
InsideUnit(d, i) ==
    \E k \in 1..3 :
        /\ i - k >= 1
        /\ ~IsCont(d, i - k)
        /\ \A j \in (i - k + 1)..(i - 1) : IsCont(d, j)
        /\ Utf8Unit(d, i - k).n > k

\* Per byte index: the code point of the unit starting there, -2 for an
\* invalid unit starting there, -1 inside a unit
Utf8Units(d) ==
    [i \in 1..Len(d) |->
        IF IsCont(d, i) /\ InsideUnit(d, i) THEN -1
        ELSE IF Utf8Unit(d, i).ok THEN Utf8Unit(d, i).cp ELSE -2]

IsCodePoint(x) == x >= 0
IsUnitStart(x) == x # -1

\* mode "strict": Raised when a unit is invalid; "ignore": the invalid
\* bytes are dropped; "replace": each invalid unit becomes U+FFFD.
Utf8Decode(d, mode) ==
    LET u == Utf8Units(d) IN
    IF mode = "strict"
    THEN IF \E i \in 1..Len(d) : u[i] = -2 THEN Raised ELSE Str(SelectSeq(u, IsCodePoint))
    ELSE IF mode = "ignore" THEN Str(SelectSeq(u, IsCodePoint))
    ELSE Str(SelectSeq([i \in 1..Len(d) |-> IF u[i] = -2 THEN ReplacementChar[1] ELSE u[i]],
                       IsUnitStart))

DecodeStrict(d) == Utf8Decode(d, "strict")
DecodeIgnore(d) == Utf8Decode(d, "ignore").val
DecodeReplace(d) == Utf8Decode(d, "replace").val

----------------------------------------------------------------------------
(* str predicates; the tables are exact for code points below U+0100 and   *)
(* for U+FFFD, which is all the inputs below can decode to.                *)

Newline == <<10>>

IsSpace(c) == c \in {9, 10, 11, 12, 13, 28, 29, 30, 31, 32, 133, 160}
IsDigit(c) == c >= 48 /\ c <= 57
IsAsciiAlpha(c) == (c >= 65 /\ c <= 90) \/ (c >= 97 /\ c <= 122)
IsAlpha(c) ==
    \/ IsAsciiAlpha(c)
    \/ c \in {170, 181, 186}
    \/ (c >= 192 /\ c <= 255 /\ c # 215 /\ c # 247)
IsAlnum(c) == IsAlpha(c) \/ IsDigit(c) \/ c \in {178, 179, 185, 188, 189, 190}
IsPrintableChar(c) ==
    \/ (c >= 32 /\ c <= 126)
    \/ (c >= 161 /\ c <= 255 /\ c # 173)
    \/ c = 65533

IsPrintable(s) == \A i \in 1..Len(s) : IsPrintableChar(s[i])
Contains(s, c) == \E i \in 1..Len(s) : s[i] = c

RECURSIVE LStrip(_)
LStrip(s) == IF Len(s) > 0 /\ IsSpace(s[1]) THEN LStrip(Tail(s)) ELSE s
RECURSIVE RStrip(_)
RStrip(s) ==
    IF Len(s) > 0 /\ IsSpace(s[Len(s)]) THEN RStrip(SubSeq(s, 1, Len(s) - 1)) ELSE s
Strip(s) == RStrip(LStrip(s))

----------------------------------------------------------------------------
(* extract_text_from_protobuf: thresholds and one operator per loop body *)

DocMinLen == 100
BlockMinLen == 50
TextMinLen == 10

\* An acceptance test without the newline alternative
AcceptsPrintableOnly(dec) == Len(dec) > TextMinLen /\ IsPrintable(dec)

\* The acceptance test of the innermost field-2 string.  Python parses
\* `a and b or c` as `(a and b) or c`.
Accepts(dec) ==
    (Len(dec) > TextMinLen /\ IsPrintable(dec)) \/ Contains(dec, Newline[1])

\* try: decoded = text_value.decode('utf-8'); if <accepted>: text_content =
\* decoded.  except: pass.  NoneVal when the candidate is skipped.
TryCandidate(text_value) ==
    LET dec == DecodeStrict(text_value) IN
    IF dec = Raised THEN NoneVal
    ELSE IF Accepts(dec.val) THEN dec ELSE NoneVal

\* A text block loop without the `break` after `text_content = decoded`
TextIterNoBreak(iv, tp) ==
    LET t == read_varint(iv, tp)
        text_field == t.value \div 8
        text_wire == t.value % 8
    IN  IF text_wire = 0
        THEN [pos |-> read_varint(iv, t.pos).pos, text_content |-> NoneVal, brk |-> FALSE]
        ELSE IF text_wire = 2
        THEN LET l == read_varint(iv, t.pos)
                 text_value == Slice(iv, l.pos, l.pos + l.value)
                 c == IF text_field = 2 THEN TryCandidate(text_value) ELSE NoneVal
             IN  [pos |-> l.pos + l.value, text_content |-> c, brk |-> FALSE]
        ELSE [pos |-> t.pos, text_content |-> NoneVal, brk |-> TRUE]

\* A text block loop that steps over a tag of another wire type and goes on
TextIterSkipUnknown(iv, tp) ==
    LET t == read_varint(iv, tp)
        text_field == t.value \div 8
        text_wire == t.value % 8
    IN  IF text_wire = 0
        THEN [pos |-> read_varint(iv, t.pos).pos, text_content |-> NoneVal, brk |-> FALSE]
        ELSE IF text_wire = 2
        THEN LET l == read_varint(iv, t.pos)
                 text_value == Slice(iv, l.pos, l.pos + l.value)
                 c == IF text_field = 2 THEN TryCandidate(text_value) ELSE NoneVal
             IN  [pos |-> l.pos + l.value, text_content |-> c, brk |-> c # NoneVal]
        ELSE [pos |-> t.pos, text_content |-> NoneVal, brk |-> FALSE]

\* A text block loop that ends at the first field-2 string, accepted or not
TextIterStopOnReject(iv, tp) ==
    LET t == read_varint(iv, tp)
        text_field == t.value \div 8
        text_wire == t.value % 8
    IN  IF text_wire = 0
        THEN [pos |-> read_varint(iv, t.pos).pos, text_content |-> NoneVal, brk |-> FALSE]
        ELSE IF text_wire = 2
        THEN LET l == read_varint(iv, t.pos)
                 text_value == Slice(iv, l.pos, l.pos + l.value)
                 c == IF text_field = 2 THEN TryCandidate(text_value) ELSE NoneVal
             IN  [pos |-> l.pos + l.value, text_content |-> c, brk |-> text_field = 2]
        ELSE [pos |-> t.pos, text_content |-> NoneVal, brk |-> TRUE]

\* One iteration of `while text_pos < len(inner_value)`
TextIter(iv, tp) ==
    LET t == read_varint(iv, tp)
        text_field == t.value \div 8
        text_wire == t.value % 8
    IN  IF text_wire = 0
        THEN [pos |-> read_varint(iv, t.pos).pos, text_content |-> NoneVal, brk |-> FALSE]
        ELSE IF text_wire = 2
        THEN LET l == read_varint(iv, t.pos)
                 text_value == Slice(iv, l.pos, l.pos + l.value)
                 c == IF text_field = 2 THEN TryCandidate(text_value) ELSE NoneVal
             IN  [pos |-> l.pos + l.value, text_content |-> c, brk |-> c # NoneVal]
        ELSE [pos |-> t.pos, text_content |-> NoneVal, brk |-> TRUE]

\* A document loop that enters a field-3 payload of BlockMinLen bytes too
InnerIterAtLeast(v, ip) ==
    LET t == read_varint(v, ip)
        inner_field == t.value \div 8
        inner_wire == t.value % 8
    IN  IF inner_wire = 0
        THEN [pos |-> read_varint(v, t.pos).pos, ld |-> FALSE, value |-> <<>>,
              enter |-> FALSE, brk |-> FALSE]
        ELSE IF inner_wire = 2
        THEN LET l == read_varint(v, t.pos)
                 iv == Slice(v, l.pos, l.pos + l.value)
             IN  [pos |-> l.pos + l.value, ld |-> TRUE, value |-> iv,
                  enter |-> (inner_field = 3 /\ Len(iv) >= BlockMinLen), brk |-> FALSE]
        ELSE [pos |-> t.pos, ld |-> FALSE, value |-> <<>>, enter |-> FALSE, brk |-> TRUE]

\* One iteration of `while inner_pos < len(value)`; enter = the text block
\* loop is run on the payload
InnerIter(v, ip) ==
    LET t == read_varint(v, ip)
        inner_field == t.value \div 8
        inner_wire == t.value % 8
    IN  IF inner_wire = 0
        THEN [pos |-> read_varint(v, t.pos).pos, ld |-> FALSE, value |-> <<>>,
              enter |-> FALSE, brk |-> FALSE]
        ELSE IF inner_wire = 2
        THEN LET l == read_varint(v, t.pos)
                 iv == Slice(v, l.pos, l.pos + l.value)
             IN  [pos |-> l.pos + l.value, ld |-> TRUE, value |-> iv,
                  enter |-> (inner_field = 3 /\ Len(iv) > BlockMinLen), brk |-> FALSE]
        ELSE [pos |-> t.pos, ld |-> FALSE, value |-> <<>>, enter |-> FALSE, brk |-> TRUE]

\* One iteration of `while pos < len(data)`; enter = the document loop is run
OuterIter(d, p) ==
    LET t == read_varint(d, p)
        field_num == t.value \div 8
        wire_type == t.value % 8
    IN  IF wire_type = 0
        THEN [pos |-> read_varint(d, t.pos).pos, ld |-> FALSE, value |-> <<>>,
              enter |-> FALSE, brk |-> FALSE]
        ELSE IF wire_type = 2
        THEN LET l == read_varint(d, t.pos)
                 v == Slice(d, l.pos, l.pos + l.value)
             IN  [pos |-> l.pos + l.value, ld |-> TRUE, value |-> v,
                  enter |-> (field_num = 2 /\ Len(v) > DocMinLen), brk |-> FALSE]
        ELSE IF wire_type = 5
        THEN [pos |-> t.pos + 4, ld |-> FALSE, value |-> <<>>, enter |-> FALSE, brk |-> FALSE]
        ELSE IF wire_type = 1
        THEN [pos |-> t.pos + 8, ld |-> FALSE, value |-> <<>>, enter |-> FALSE, brk |-> FALSE]
        ELSE [pos |-> t.pos, ld |-> FALSE, value |-> <<>>, enter |-> FALSE, brk |-> TRUE]

\* An except clause that lets the exception out
OnExtractExceptionReraise == Raised

\* `except Exception as e: return None`
OnExtractException == NoneVal

\* Where control goes when extract_text_from_protobuf returns
AfterExtract == IF caller = "extract" THEN "done" ELSE "check"

----------------------------------------------------------------------------
(* decode_note_content: the fallback extractor *)

ContentMinLen == 10
ShortPartLen == 3
StreakLimit == 3

\* f"[Could not decode: {e}]" with e rendered as "gzip"
CouldNotDecode ==
    <<91, 67, 111, 117, 108, 100, 32, 110, 111, 116, 32, 100, 101, 99, 111,
      100, 101, 58, 32, 103, 122, 105, 112, 93>>

\* The test with >= in place of >
UseStructuredAtLeast(txt) == Truthy(txt) /\ Len(Strip(txt.val)) >= ContentMinLen

\* `if text and len(text.strip()) > 10`
UseStructured(txt) == Truthy(txt) /\ Len(Strip(txt.val)) > ContentMinLen

\* [\x20-\x7E\n\r\t]
IsRunChar(c) == (c >= 32 /\ c <= 126) \/ c \in {10, 13, 9}

\* re.findall(r'[\x20-\x7E\n\r\t]+', s): the maximal runs, in order
IsRunStart(s, i) == IsRunChar(s[i]) /\ (i = 1 \/ ~IsRunChar(s[i - 1]))

\* The run that starts at i, up to the character before the next stop
RunAt(s, i) ==
    LET stops == {k \in i..Len(s) : ~IsRunChar(s[k])}
    IN  SubSeq(s, i, IF stops = {} THEN Len(s) ELSE MinOf(stops) - 1)

IsRun(r) == r # <<>>

FindAll(s) ==
    SelectSeq([i \in 1..Len(s) |-> IF IsRunStart(s, i) THEN RunAt(s, i) ELSE <<>>], IsRun)

\* A text character test that leaves the space out
IsTextCharNoSpace(c) == IsAlnum(c) \/ c \in {46, 44, 33, 63, 58, 59, 39, 45}
\* c.isalnum() or c in ' .,!?:;\'-'
IsTextChar(c) == IsAlnum(c) \/ c \in {32, 46, 44, 33, 63, 58, 59, 39, 45}
\* c.isalnum() or c == ' '
IsAlnumOrSpace(c) == IsAlnum(c) \/ c = 32
\* [A-Za-z0-9+/=_\-]
IsBase64Char(c) == IsAsciiAlpha(c) \/ IsDigit(c) \/ c \in {43, 47, 61, 95, 45}

\* sum(1 for c in part if ...)
CountTextChars(part) == Cardinality({i \in 1..Len(part) : IsTextChar(part[i])})
CountAlnumOrSpace(part) == Cardinality({i \in 1..Len(part) : IsAlnumOrSpace(part[i])})

\* The block under `if len(part) < 10`
ShortGarbage(part) ==
    IF Len(part) < 10
    THEN IF CountAlnumOrSpace(part) * 10 < 7 * Len(part) THEN TRUE
         ELSE ~Contains(part, 32) /\ Len(part) < 8
              /\ ~(\A i \in 1..Len(part) : IsAlpha(part[i]))
    ELSE FALSE

\* The if/elif chain on ratio = text_chars / len(part)
ChainGarbage(part) ==
    LET text_chars == CountTextChars(part)
        n == Len(part)
    IN  IF text_chars * 10 < 6 * n THEN TRUE
        ELSE IF n < 15 /\ text_chars * 100 < 75 * n THEN TRUE
        ELSE IF n >= 10 /\ (\A i \in 1..n : IsBase64Char(part[i])) /\ ~Contains(part, 32)
        THEN TRUE
        ELSE IF Contains(part, 9) /\ n < 30 THEN TRUE
        ELSE IF n < 20 /\ part[n] \in {104, 40} THEN TRUE
        ELSE part[1] \in {33, 43, 44, 60, 62, 123, 125, 91, 93} /\ n < 15

\* is_garbage after both blocks, for a part with len(part) > 0
IsGarbage(part) == ShortGarbage(part) \/ ChainGarbage(part)

\* re.match(r'^[A-Za-z]{1,2}$', part)
IsOneOrTwoLetters(part) ==
    Len(part) \in {1, 2} /\ \A i \in 1..Len(part) : IsAsciiAlpha(part[i])

\* A loop body that forgets `garbage_streak = 0` on a content run
PartIterNoReset(raw, cleaned, streak) ==
    LET part == Strip(raw) IN
    IF Len(part) <= ShortPartLen
    THEN [cleaned |-> cleaned, streak |-> streak, brk |-> FALSE]
    ELSE IF IsGarbage(part)
    THEN [cleaned |-> cleaned, streak |-> streak + 1, brk |-> streak + 1 >= StreakLimit]
    ELSE [cleaned |-> IF IsOneOrTwoLetters(part) THEN cleaned ELSE Append(cleaned, part),
          streak |-> streak, brk |-> FALSE]

\* A loop body that counts a short run as garbage
PartIterShortCounts(raw, cleaned, streak) ==
    LET part == Strip(raw) IN
    IF Len(part) <= ShortPartLen \/ IsGarbage(part)
    THEN [cleaned |-> cleaned, streak |-> streak + 1, brk |-> streak + 1 >= StreakLimit]
    ELSE [cleaned |-> IF IsOneOrTwoLetters(part) THEN cleaned ELSE Append(cleaned, part),
          streak |-> 0, brk |-> FALSE]

\* One iteration of `for part in readable_parts`
PartIter(raw, cleaned, streak) ==
    LET part == Strip(raw) IN
    IF Len(part) <= ShortPartLen
    THEN [cleaned |-> cleaned, streak |-> streak, brk |-> FALSE]
    ELSE IF IsGarbage(part)
    THEN [cleaned |-> cleaned, streak |-> streak + 1, brk |-> streak + 1 >= StreakLimit]
    ELSE [cleaned |-> IF IsOneOrTwoLetters(part) THEN cleaned ELSE Append(cleaned, part),
          streak |-> 0, brk |-> FALSE]

\* A seen/unique_parts loop that never finds a part in `seen`
DedupKeepAll(parts, unique) == unique \o parts
\* The seen/unique_parts loop
RECURSIVE Dedup(_, _)
Dedup(parts, unique) ==
    IF parts = <<>> THEN unique
    ELSE Dedup(Tail(parts),
               IF \E i \in 1..Len(unique) : unique[i] = Head(parts)
               THEN unique ELSE Append(unique, Head(parts)))

\* '\n'.join(parts)
RECURSIVE Join(_)
Join(parts) ==
    IF parts = <<>> THEN <<>>
    ELSE IF Len(parts) = 1 THEN parts[1]
    ELSE parts[1] \o Newline \o Join(Tail(parts))

\* A fallback that decodes the buffer as it was passed
FallbackDataAsPassed == data
\* The buffer the fallback decodes (data after its own gzip step)
FallbackData ==
    IF HasGzipMagic(data.val) THEN GzipDecompress(data.val) ELSE data

----------------------------------------------------------------------------
(* format_as_markdown *)

HeaderMaxLen == 60

\* text.split('\n'): the pieces between the newlines, empty pieces included
Split(s) ==
    LET cuts == {k \in 1..Len(s) : s[k] = Newline[1]}
        before(k) == IF \E c \in cuts : c < k
                     THEN CHOOSE c \in cuts : c < k /\ \A e \in cuts : e < k => e <= c
                     ELSE 0
    IN  [n \in 1..(Cardinality(cuts) + 1) |->
            LET ends == {k \in cuts \cup {Len(s) + 1} :
                            Cardinality({c \in cuts : c < k}) = n - 1}
                e == MinOf(ends)
            IN  SubSeq(s, before(e) + 1, e - 1)]

\* [\t ]
IsTabOrSpace(c) == c \in {9, 32}
\* [•\-\*○▪▸►◦‣⁃]
IsBullet(c) == c \in {8226, 45, 42, 9675, 9642, 9656, 9658, 9702, 8227, 8259}
\* [.\)]
IsDotOrParen(c) == c \in {46, 41}

\* Index of the first character behind the leading `[\t ]*`
AfterLead(line) ==
    LET rest == {k \in 1..Len(line) : ~IsTabOrSpace(line[k])}
    IN  IF rest = {} THEN Len(line) + 1 ELSE MinOf(rest)

\* `\s*(.+)$` from index q: no match on an empty rest; the content is the rest
\* without its leading whitespace, or its last character when it is all
\* whitespace
Content(line, q) ==
    LET rest == SubSeq(line, q, Len(line)) IN
    IF rest = <<>> THEN [ok |-> FALSE, content |-> <<>>]
    ELSE IF LStrip(rest) # <<>> THEN [ok |-> TRUE, content |-> LStrip(rest)]
    ELSE [ok |-> TRUE, content |-> <<rest[Len(rest)]>>]

\* re.match(r'^[\t ]*([•\-\*○▪▸►◦‣⁃])\s*(.+)$', line)
BulletMatch(line) ==
    LET p == AfterLead(line) IN
    IF p <= Len(line) /\ IsBullet(line[p]) THEN Content(line, p + 1)
    ELSE [ok |-> FALSE, content |-> <<>>]

\* Index behind the digits that start at p
AfterDigits(line, p) ==
    LET rest == {k \in p..Len(line) : ~IsDigit(line[k])}
    IN  IF rest = {} THEN Len(line) + 1 ELSE MinOf(rest)

\* A numbered match whose content starts right behind the separator
NumberMatchNoSkip(line) ==
    LET p == AfterLead(line)
        q == AfterDigits(line, p)
    IN  IF q > p /\ q < Len(line) /\ IsDotOrParen(line[q])
        THEN [ok |-> TRUE, num |-> SubSeq(line, p, q - 1),
              content |-> SubSeq(line, q + 1, Len(line))]
        ELSE [ok |-> FALSE, num |-> <<>>, content |-> <<>>]

\* re.match(r'^[\t ]*(\d+)[.\)]\s*(.+)$', line)
NumberMatch(line) ==
    LET p == AfterLead(line)
        q == AfterDigits(line, p)
    IN  IF q > p /\ q <= Len(line) /\ IsDotOrParen(line[q])
        THEN [ok |-> Content(line, q + 1).ok, num |-> SubSeq(line, p, q - 1),
              content |-> Content(line, q + 1).content]
        ELSE [ok |-> FALSE, num |-> <<>>, content |-> <<>>]

\* re.match(r'^[\t ]*([a-zA-Z])[.\)]\s*(.+)$', line)
LetterMatch(line) ==
    LET p == AfterLead(line) IN
    IF p + 1 <= Len(line) /\ IsAsciiAlpha(line[p]) /\ IsDotOrParen(line[p + 1])
    THEN Content(line, p + 2)
    ELSE [ok |-> FALSE, content |-> <<>>]

\* A checkbox match that knows the lower-case x and the space only
CheckboxMatchLowerOnly(line) ==
    LET p == AfterLead(line) IN
    IF p + 2 <= Len(line) /\ line[p] = 91 /\ line[p + 1] \in {120, 32}
       /\ line[p + 2] = 93
    THEN [ok |-> Content(line, p + 3).ok, check |-> line[p + 1],
          content |-> Content(line, p + 3).content]
    ELSE [ok |-> FALSE, check |-> 0, content |-> <<>>]

\* re.match(r'^[\t ]*\[([xX ])\]\s*(.+)$', line)
CheckboxMatch(line) ==
    LET p == AfterLead(line) IN
    IF p + 2 <= Len(line) /\ line[p] = 91 /\ line[p + 1] \in {120, 88, 32}
       /\ line[p + 2] = 93
    THEN [ok |-> Content(line, p + 3).ok, check |-> line[p + 1],
          content |-> Content(line, p + 3).content]
    ELSE [ok |-> FALSE, check |-> 0, content |-> <<>>]

StartsWith(s, pre) == Len(s) >= Len(pre) /\ SubSeq(s, 1, Len(pre)) = pre

\* An indent level of one per two leading characters
IndentLevelByTwo(line) == (Len(line) - Len(LStrip(line))) \div 2

\* leading_spaces = len(line) - len(line.lstrip()); indent_level = ... //4
\* when it is positive, else 1 for a leading tab, else 0
IndentLevel(line) ==
    LET leading_spaces == Len(line) - Len(LStrip(line)) IN
    IF leading_spaces > 0 THEN leading_spaces \div 4
    ELSE IF StartsWith(line, <<9>>) THEN 1 ELSE 0

\* '  ' * indent_level
Indent(level) == [k \in 1..(2 * level) |-> 32]

\* A header test without `i > 0`
HeaderCandidateAnyLine(stripped, prev_blank, i) ==
    /\ prev_blank
    /\ Len(stripped) < HeaderMaxLen
    /\ stripped[Len(stripped)] \notin {44, 46, 58, 59, 63, 33}
    /\ ~StartsWith(stripped, <<104, 116, 116, 112>>)
    /\ ~StartsWith(stripped, <<119, 119, 119>>)
    /\ ~StartsWith(stripped, <<64>>)
    /\ ~StartsWith(stripped, <<35>>)
    /\ stripped[1] >= 65 /\ stripped[1] <= 90

\* A header test that admits a line of HeaderMaxLen characters
HeaderCandidateAtMost(stripped, prev_blank, i) ==
    /\ prev_blank
    /\ Len(stripped) <= HeaderMaxLen
    /\ stripped[Len(stripped)] \notin {44, 46, 58, 59, 63, 33}
    /\ ~StartsWith(stripped, <<104, 116, 116, 112>>)
    /\ ~StartsWith(stripped, <<119, 119, 119>>)
    /\ ~StartsWith(stripped, <<64>>)
    /\ ~StartsWith(stripped, <<35>>)
    /\ stripped[1] >= 65 /\ stripped[1] <= 90
    /\ i > 0

\* The first five conditions of the header test, and i > 0
HeaderCandidate(stripped, prev_blank, i) ==
    /\ prev_blank
    /\ Len(stripped) < HeaderMaxLen
    /\ stripped[Len(stripped)] \notin {44, 46, 58, 59, 63, 33}
    /\ ~StartsWith(stripped, <<104, 116, 116, 112>>)
    /\ ~StartsWith(stripped, <<119, 119, 119>>)
    /\ ~StartsWith(stripped, <<64>>)
    /\ ~StartsWith(stripped, <<35>>)
    /\ stripped[1] >= 65 /\ stripped[1] <= 90
    /\ i > 0

\* next_line = lines[i+1].strip() if i+1 < len(lines) else '';
\* `not next_line or len(next_line) > len(stripped)`
NextLineAllows(ls, i, stripped) ==
    LET next_line == IF i + 1 < Len(ls) THEN Strip(ls[i + 2]) ELSE <<>>
    IN  next_line = <<>> \/ Len(next_line) > Len(stripped)

\* A loop body that tries the header test before the list rules
FormatLineHeaderFirst(ls, i, prev_blank) ==
    LET line == ls[i + 1]
        stripped == Strip(line)
        indent == Indent(IndentLevel(line))
    IN  IF stripped = <<>> THEN [out |-> <<>>, rule |-> "blank"]
        ELSE IF HeaderCandidate(stripped, prev_blank, i) /\ NextLineAllows(ls, i, stripped)
        THEN [out |-> <<35, 35, 32>> \o stripped, rule |-> "header"]
        ELSE IF BulletMatch(line).ok
        THEN [out |-> indent \o <<45, 32>> \o BulletMatch(line).content, rule |-> "bullet"]
        ELSE IF NumberMatch(line).ok
        THEN [out |-> indent \o NumberMatch(line).num \o <<46, 32>>
                      \o NumberMatch(line).content,
              rule |-> "number"]
        ELSE IF LetterMatch(line).ok /\ Len(stripped) > 3
        THEN [out |-> indent \o <<45, 32>> \o LetterMatch(line).content, rule |-> "letter"]
        ELSE IF CheckboxMatch(line).ok
        THEN [out |-> indent \o <<45, 32>>
                      \o (IF CheckboxMatch(line).check \in {120, 88}
                          THEN <<91, 120, 93>> ELSE <<91, 32, 93>>)
                      \o <<32>> \o CheckboxMatch(line).content,
              rule |-> "checkbox"]
        ELSE [out |-> indent \o stripped, rule |-> "default"]

\* A loop body whose lettered rule admits a trimmed length of 3
FormatLineShortLetters(ls, i, prev_blank) ==
    LET line == ls[i + 1]
        stripped == Strip(line)
        indent == Indent(IndentLevel(line))
    IN  IF stripped = <<>> THEN [out |-> <<>>, rule |-> "blank"]
        ELSE IF BulletMatch(line).ok
        THEN [out |-> indent \o <<45, 32>> \o BulletMatch(line).content, rule |-> "bullet"]
        ELSE IF NumberMatch(line).ok
        THEN [out |-> indent \o NumberMatch(line).num \o <<46, 32>>
                      \o NumberMatch(line).content,
              rule |-> "number"]
        ELSE IF LetterMatch(line).ok /\ Len(stripped) >= 3
        THEN [out |-> indent \o <<45, 32>> \o LetterMatch(line).content, rule |-> "letter"]
        ELSE IF CheckboxMatch(line).ok
        THEN [out |-> indent \o <<45, 32>>
                      \o (IF CheckboxMatch(line).check \in {120, 88}
                          THEN <<91, 120, 93>> ELSE <<91, 32, 93>>)
                      \o <<32>> \o CheckboxMatch(line).content,
              rule |-> "checkbox"]
        ELSE IF HeaderCandidate(stripped, prev_blank, i) /\ NextLineAllows(ls, i, stripped)
        THEN [out |-> <<35, 35, 32>> \o stripped, rule |-> "header"]
        ELSE [out |-> indent \o stripped, rule |-> "default"]

\* The body of the for loop for line i (0-based): the line appended and the
\* rule that produced it
FormatLine(ls, i, prev_blank) ==
    LET line == ls[i + 1]
        stripped == Strip(line)
        indent == Indent(IndentLevel(line))
    IN  IF stripped = <<>> THEN [out |-> <<>>, rule |-> "blank"]
        ELSE IF BulletMatch(line).ok
        THEN [out |-> indent \o <<45, 32>> \o BulletMatch(line).content, rule |-> "bullet"]
        ELSE IF NumberMatch(line).ok
        THEN [out |-> indent \o NumberMatch(line).num \o <<46, 32>>
                      \o NumberMatch(line).content,
              rule |-> "number"]
        ELSE IF LetterMatch(line).ok /\ Len(stripped) > 3
        THEN [out |-> indent \o <<45, 32>> \o LetterMatch(line).content, rule |-> "letter"]
        ELSE IF CheckboxMatch(line).ok
        THEN [out |-> indent \o <<45, 32>>
                      \o (IF CheckboxMatch(line).check \in {120, 88}
                          THEN <<91, 120, 93>> ELSE <<91, 32, 93>>)
                      \o <<32>> \o CheckboxMatch(line).content,
              rule |-> "checkbox"]
        ELSE IF HeaderCandidate(stripped, prev_blank, i) /\ NextLineAllows(ls, i, stripped)
        THEN [out |-> <<35, 35, 32>> \o stripped, rule |-> "header"]
        ELSE [out |-> indent \o stripped, rule |-> "default"]

----------------------------------------------------------------------------
(* Inputs: None, crafted three-level buffers (a well-formed base case and  *)
(* every variation of it in at most two places), buffers of text runs      *)
(* for the fallback, and short raw buffers.                                *)

MaxTrunc == 2
MaxRuns == 5
MaxRawLen == 3
MaxLines == 3

\* Innermost strings: long with a newline; long printable; exactly
\* TextMinLen printable; short with a newline; short; invalid UTF-8; with a
\* control character; with two-byte characters; newline-terminated digits;
\* spaced letters with a trailing newline
Texts == <<
    <<78, 111, 116, 101, 115, 10, 82, 111, 97, 100, 109, 97, 112, 32, 49>>,
    <<72, 101, 108, 108, 111, 32, 87, 111, 114, 108, 100, 33>>,
    <<48, 49, 50, 51, 52, 53, 54, 55, 56, 57>>,
    <<97, 98, 10, 99, 100>>,
    <<72, 101, 108, 108, 111>>,
    <<72, 101, 108, 108, 111, 255, 87, 111, 114, 108, 100, 33>>,
    <<72, 101, 108, 108, 111, 1, 87, 111, 114, 108, 100, 33>>,
    <<104, 195, 169, 108, 108, 111, 32, 119, 195, 182, 114, 108, 100>>,
    <<48, 49, 50, 51, 52, 53, 54, 55, 56, 57, 10>>,
    <<97, 32, 98, 32, 99, 32, 100, 32, 101, 32, 102, 10>> >>

\* Strings of a second candidate: "Second text 2" and "xy\nz"
SecondTexts == <<
    <<83, 101, 99, 111, 110, 100, 32, 116, 101, 120, 116, 32, 50>>,
    <<120, 121, 10, 122>> >>

RECURSIVE EncVarint(_)
EncVarint(n) == IF n < 128 THEN <<n>> ELSE <<128 + (n % 128)>> \o EncVarint(n \div 128)

\* A length-delimited field
LD(f, p) == EncVarint(f * 8 + 2) \o EncVarint(Len(p)) \o p

\* A field placed before the interesting one: nothing, a varint, a fixed32,
\* a fixed64, a tag of wire type 3, 4, 6 or 7; all with field number 1
PreBytes(k) ==
    IF k = 1 THEN <<8, 5>>
    ELSE IF k = 2 THEN <<13, 1, 0, 0, 0>>
    ELSE IF k = 3 THEN <<9, 1, 0, 0, 0, 0, 0, 0, 0>>
    ELSE IF k = 4 THEN <<11>>
    ELSE IF k = 5 THEN <<12>>
    ELSE IF k = 6 THEN <<14>>
    ELSE IF k = 7 THEN <<15>>
    ELSE <<>>

\* content preceded by a field-15 filler so that the whole is n bytes long
PadTo(n, content) ==
    IF n - Len(content) >= 2
    THEN <<122, n - Len(content) - 2>> \o Zeros(n - Len(content) - 2) \o content
    ELSE content

Cand2(i) == IF i = 0 THEN <<>> ELSE LD(2, SecondTexts[i])
Block2(i) == PadTo(BlockMinLen + 1, LD(2, SecondTexts[i]))
Doc2(i) == PadTo(DocMinLen + 1, LD(3, Block2(i)))

Block(d) == PadTo(d.sD, PreBytes(d.preT) \o LD(d.fT, Texts[d.t1]) \o Cand2(d.t2))
Doc(d) ==
    PadTo(d.sO, PreBytes(d.preD) \o LD(d.fD, Block(d))
                \o (IF d.blk2 = 0 THEN <<>> ELSE LD(3, Block2(d.blk2))))
Outer(d) ==
    PreBytes(d.preO) \o LD(d.fO, Doc(d))
    \o (IF d.doc2 = 0 THEN <<>> ELSE LD(2, Doc2(d.doc2)))

Truncated(d) == SubSeq(Outer(d), 1, Len(Outer(d)) - d.trunc)

\* A gzip frame whose trailer is wrong
GzipCorrupt(p) ==
    LET g == GzipCompress(p) IN [g EXCEPT ![Len(g)] = (g[Len(g)] + 1) % 256]

Build(d) ==
    IF d.gz = 1 THEN GzipCompress(Truncated(d))
    ELSE IF d.gz = 2 THEN GzipCorrupt(Truncated(d))
    ELSE Truncated(d)

Base(t) ==
    [preO |-> 0, fO |-> 2, sO |-> DocMinLen + 1,
     preD |-> 0, fD |-> 3, sD |-> BlockMinLen + 1,
     preT |-> 0, fT |-> 2, t1 |-> t, t2 |-> 0,
     blk2 |-> 0, doc2 |-> 0, trunc |-> 0, gz |-> 0]

Changes ==
    {[f |-> n, v |-> k] : n \in {"preO", "preD", "preT"}, k \in 1..4}
    \cup {[f |-> n, v |-> 1] : n \in {"fO", "fT"}}
    \cup {[f |-> "fD", v |-> 4], [f |-> "sO", v |-> DocMinLen],
          [f |-> "sD", v |-> BlockMinLen]}
    \cup {[f |-> n, v |-> k] : n \in {"t2", "blk2", "doc2", "gz"}, k \in 1..2}
    \cup {[f |-> "trunc", v |-> k] : k \in 1..MaxTrunc}

Apply(d, c) == [d EXCEPT ![c.f] = c.v]

\* A tag of wire type 4, 6 or 7 at one of the three levels, alone or with a
\* later sibling at one of them
StopDescs ==
    LET S == {Apply(Base(1), [f |-> n, v |-> k]) :
                 n \in {"preO", "preD", "preT"}, k \in 5..7}
    IN  S \cup {Apply(d, [f |-> n, v |-> 1]) : d \in S, n \in {"t2", "blk2", "doc2"}}

\* The base case with a document and a text block large enough to pass the
\* size tests after the end of the buffer is cut off
CutDescs ==
    {[Base(t) EXCEPT !.sO = DocMinLen + MaxTrunc + 1, !.sD = BlockMinLen + MaxTrunc + 1,
                     !.trunc = k] : t \in 1..Len(Texts), k \in 1..MaxTrunc}

Descs ==
    LET B == {Base(t) : t \in 1..Len(Texts)}
        D1 == {Apply(d, c) : d \in B, c \in Changes}
        D2 == {Apply(d, c) : d \in D1, c \in Changes}
    IN  B \cup D1 \cup D2 \cup StopDescs \cup CutDescs

\* Text runs: "Hello World", "Buy milk now", "###???", "ab"
Segments == <<
    <<72, 101, 108, 108, 111, 32, 87, 111, 114, 108, 100>>,
    <<66, 117, 121, 32, 109, 105, 108, 107, 32, 110, 111, 119>>,
    <<35, 35, 35, 63, 63, 63>>,
    <<97, 98>> >>

\* What separates two runs: a control byte, or a byte invalid in UTF-8
Separators == << <<1>>, <<255>> >>

RECURSIVE RunBuffer(_, _)
RunBuffer(segs, sep) ==
    IF Len(segs) = 1 THEN Segments[segs[1]]
    ELSE Segments[segs[1]] \o Separators[sep] \o RunBuffer(Tail(segs), sep)

RunShapes == UNION {[1..n -> 1..Len(Segments)] : n \in 1..MaxRuns}

\* Tag of a length-delimited field 2, a continuation byte, the gzip magic,
\* a small value, tag of a varint field 1, an all-ones byte
RawBytes == {18, 128, 31, 139, 5, 8, 255}

RawBuffers == UNION {[1..n -> RawBytes] : n \in 0..MaxRawLen}

\* Lines of a note: empty; whitespace only; a capitalised line of 59
\* characters; a capitalised line of 60 characters; a line in lower case; a
\* capitalised line that ends with a colon; a line that starts with a capital
\* letter outside A-Z; a bullet behind two spaces; a bullet behind four
\* spaces; a bullet behind a tab; a numbered item without a space; a numbered
\* item with three spaces; a lettered item; a lettered shape of trimmed
\* length 3; a checked box; a box checked in upper case; an unchecked box
\* behind four spaces; a bullet holding a checkbox; a numbered item in the
\* emitted form; a numbered shape behind a no-break space; a checkbox shape
\* behind a no-break space
LineSamples == <<
    <<>>,
    <<32, 9>>,
    <<77, 105, 110, 117, 116, 101, 115, 32, 111, 102, 32, 116, 104, 101, 32,
          113, 117, 97, 114, 116, 101, 114, 108, 121, 32, 112, 108, 97, 110,
          110, 105, 110, 103, 32, 109, 101, 101, 116, 105, 110, 103, 32, 119,
          105, 116, 104, 32, 97, 108, 108, 32, 116, 104, 101, 32, 116, 101, 97,
          109>>,
    <<77, 105, 110, 117, 116, 101, 115, 32, 111, 102, 32, 116, 104, 101, 32,
          113, 117, 97, 114, 116, 101, 114, 108, 121, 32, 112, 108, 97, 110,
          110, 105, 110, 103, 32, 109, 101, 101, 116, 105, 110, 103, 32, 119,
          105, 116, 104, 32, 97, 108, 108, 32, 116, 104, 101, 32, 116, 101, 97,
          109, 115>>,
    <<112, 108, 97, 105, 110, 32, 116, 101, 120, 116>>,
    <<78, 111, 116, 101, 58>>,
    <<201, 99, 111, 108, 101>>,
    <<32, 32, 9702, 32, 105, 116, 101, 109, 32, 116, 119, 111>>,
    <<32, 32, 32, 32, 45, 32, 115, 117, 98, 32, 105, 116, 101, 109>>,
    <<9, 42, 32, 116, 97, 98, 98, 101, 100>>,
    <<49, 41, 70, 105, 114, 115, 116>>,
    <<49, 46, 32, 32, 32, 70, 105, 114, 115, 116>>,
    <<65, 46, 32, 97, 112, 112, 108, 101>>,
    <<66, 41, 120>>,
    <<91, 120, 93, 32, 66, 117, 121, 32, 109, 105, 108, 107>>,
    <<91, 88, 93, 32, 66, 117, 121, 32, 109, 105, 108, 107>>,
    <<32, 32, 32, 32, 91, 32, 93, 32, 66, 117, 121, 32, 101, 103, 103, 115>>,
    <<45, 32, 91, 88, 93, 32, 116, 97, 115, 107>>,
    <<49, 46, 32, 70, 105, 114, 115, 116>>,
    <<160, 49, 50, 41, 84, 119, 111>>,
    <<160, 91, 120, 93, 32, 66, 117, 121, 32, 109, 105, 108, 107>> >>

\* The first VariedLines lines of a note range over every sample; the lines
\* behind them are a blank line, the line of 62 characters, plain text, a
\* lettered item, a lettered line of three characters or a numbered item
VariedLines == 2
ContinuationLines == {1, 4, 5, 13, 14, 19}

\* A note of at most MaxLines lines, as the indices of its lines
TextShapes ==
    UNION {{g \in [1..n -> 1..Len(LineSamples)] :
               \A k \in (VariedLines + 1)..n : g[k] \in ContinuationLines}
           : n \in 1..MaxLines}

\* The lines joined by newlines
TextOf(segs) == Join([k \in 1..Len(segs) |-> LineSamples[segs[k]]])

\* Single runs for the classifier: rule 1 alone; rule 2 alone; rule 3 alone;
\* rule 4 alone; rule 5 alone; rule 6 alone; rule 7 alone; rule 8 alone;
\* content of letters and spaces; nine letters; ratio exactly 0.6 at length
\* 15; ratio exactly 0.75 at length 12; short words; content with a newline;
\* four signs; four letters
Probes == <<
    <<97, 46, 98, 46, 99, 46, 100, 46>>,
    <<97, 98, 99, 49, 50, 51, 52>>,
    <<97, 98, 99, 100, 32, 35, 35, 35, 35, 35, 35, 35, 35, 32, 35, 35, 35, 35>>,
    <<72, 101, 108, 108, 111, 32, 121, 111, 32, 35, 35, 35, 35>>,
    <<97, 98, 99, 100, 101, 102, 103, 104, 105, 106, 48, 49, 50, 51>>,
    <<72, 101, 108, 108, 111, 9, 87, 111, 114, 108, 100, 32, 97, 103, 97, 105,
          110>>,
    <<66, 117, 121, 32, 102, 114, 101, 115, 104, 32, 102, 105, 115, 104>>,
    <<91, 120, 93, 32, 66, 117, 121, 32, 109, 105, 108, 107>>,
    <<97, 32, 98, 32, 99, 32, 100, 32, 101, 32, 102, 32, 103>>,
    <<97, 98, 99, 100, 101, 102, 103, 104, 105>>,
    <<97, 98, 99, 100, 101, 102, 103, 104, 105, 35, 35, 35, 35, 35, 35>>,
    <<97, 98, 99, 100, 101, 102, 103, 104, 105, 35, 35, 35>>,
    <<73, 32, 97, 109, 32, 111, 110, 32, 105, 116, 32, 111, 107>>,
    <<78, 111, 116, 101, 32, 111, 110, 101, 10, 78, 111, 116, 101, 32, 116, 119,
          111>>,
    <<36, 36, 36, 36>>,
    <<67, 97, 108, 108>> >>

Shapes ==
    {[kind |-> "none", d |-> Base(1), segs |-> <<>>, sep |-> 1]}
    \cup {[kind |-> "probe", d |-> Base(1), segs |-> Probes[k], sep |-> 1] :
             k \in 1..Len(Probes)}
    \cup {[kind |-> "built", d |-> d, segs |-> <<>>, sep |-> 1] : d \in Descs}
    \cup {[kind |-> "runs", d |-> Base(1), segs |-> g, sep |-> p] :
             g \in RunShapes, p \in 1..Len(Separators)}
    \cup {[kind |-> "raw", d |-> Base(1), segs |-> b, sep |-> 1] : b \in RawBuffers}

DataOf(sh) ==
    IF sh.kind = "none" THEN NoneVal
    ELSE IF sh.kind = "built" THEN Bytes(Build(sh.d))
    ELSE IF sh.kind = "runs" THEN Bytes(RunBuffer(sh.segs, sh.sep))
    ELSE Bytes(sh.segs)

----------------------------------------------------------------------------
(* The state machine *)

\* The argument of format_as_markdown: None, or a note of lines
FormatShapes ==
    {[kind |-> "none", d |-> Base(1), segs |-> <<>>, sep |-> 1]}
    \cup {[kind |-> "text", d |-> Base(1), segs |-> g, sep |-> 1] : g \in TextShapes}

Init ==
    /\ caller \in {"extract", "decode", "format"}
    /\ shape \in IF caller = "format" THEN FormatShapes ELSE Shapes
    /\ data = IF caller = "format" THEN NoneVal ELSE DataOf(shape)
    /\ text = IF caller = "format" /\ shape.kind = "text"
              THEN Str(TextOf(shape.segs)) ELSE NoneVal
    /\ pc = IF caller = "decode" THEN "decode_entry"
            ELSE IF caller = "extract" THEN "extract_entry" ELSE "format_entry"
    /\ buf = <<>>
    /\ pos = 0
    /\ value = <<>>
    /\ inner_pos = 0
    /\ inner_value = <<>>
    /\ text_pos = 0
    /\ text_content = NoneVal
    /\ ext_result = NoneVal
    /\ decoded = <<>>
    /\ readable_parts = <<>>
    /\ part_idx = 1
    /\ cleaned_parts = <<>>
    /\ garbage_streak = 0
    /\ result = NoneVal
    /\ lines = <<>>
    /\ line_idx = 0
    /\ formatted_lines = <<>>
    /\ prev_was_blank = TRUE
    /\ md_result = NoneVal
    /\ notes = <<>>
    /\ note_idx = 1
    /\ existing = {}
    /\ fs = {}
    /\ exported = <<>>
    /\ failed_count = 0
    /\ folder_name = <<>>
    /\ filename = <<>>
    /\ counter = 1

mdVars == <<text, lines, line_idx, formatted_lines, prev_was_blank, md_result>>
extractVars == <<buf, pos, value, inner_pos, inner_value, text_pos, text_content,
                 ext_result>>
fallbackVars == <<decoded, readable_parts, part_idx, cleaned_parts, garbage_streak>>

\* decode_note_content: `if data is None: return None`, else call the extractor
DecodeEntry ==
    /\ pc = "decode_entry"
    /\ IF data = NoneVal
       THEN pc' = "done" /\ result' = NoneVal
       ELSE pc' = "extract_entry" /\ UNCHANGED result
    /\ UNCHANGED <<exportVars, shape, caller, data, mdVars, extractVars, fallbackVars>>

\* extract_text_from_protobuf up to the first loop: the None test, the gzip
\* step inside the try, pos = 0, text_content = None
ExtractEntry ==
    /\ pc = "extract_entry"
    /\ IF data = NoneVal
       THEN /\ ext_result' = NoneVal
            /\ pc' = AfterExtract
            /\ UNCHANGED <<buf, pos, text_content>>
       ELSE LET d == IF HasGzipMagic(data.val) THEN GzipDecompress(data.val) ELSE data
            IN  IF d = Raised
                THEN /\ pc' = "extract_except"
                     /\ UNCHANGED <<buf, pos, text_content, ext_result>>
                ELSE /\ buf' = d.val
                     /\ pos' = 0
                     /\ text_content' = NoneVal
                     /\ pc' = "outer"
                     /\ UNCHANGED ext_result
    /\ UNCHANGED <<exportVars, shape, caller, data, mdVars, value, inner_pos, inner_value, text_pos, result,
                   fallbackVars>>

\* The except clause of extract_text_from_protobuf
ExtractExcept ==
    /\ pc = "extract_except"
    /\ ext_result' = OnExtractException
    /\ pc' = AfterExtract
    /\ UNCHANGED <<exportVars, shape, caller, data, mdVars, buf, pos, value, inner_pos, inner_value, text_pos,
                   text_content, result, fallbackVars>>

\* One iteration of the outer loop
OuterField ==
    /\ pc = "outer"
    /\ pos < Len(buf)
    /\ LET r == OuterIter(buf, pos) IN
        /\ pos' = r.pos
        /\ value' = IF r.ld THEN r.value ELSE value
        /\ inner_pos' = IF r.enter THEN 0 ELSE inner_pos
        /\ pc' = IF r.brk THEN "return" ELSE IF r.enter THEN "inner" ELSE "outer"
    /\ UNCHANGED <<exportVars, shape, caller, data, mdVars, buf, inner_value, text_pos, text_content, ext_result,
                   result, fallbackVars>>

\* The outer loop condition fails
OuterEnd ==
    /\ pc = "outer"
    /\ pos >= Len(buf)
    /\ pc' = "return"
    /\ UNCHANGED <<exportVars, shape, caller, data, mdVars, extractVars, result, fallbackVars>>

\* One iteration of the document loop
InnerField ==
    /\ pc = "inner"
    /\ inner_pos < Len(value)
    /\ LET r == InnerIter(value, inner_pos) IN
        /\ inner_pos' = r.pos
        /\ inner_value' = IF r.ld THEN r.value ELSE inner_value
        /\ text_pos' = IF r.enter THEN 0 ELSE text_pos
        /\ pc' = IF r.brk THEN "inner_exit" ELSE IF r.enter THEN "text" ELSE "inner"
    /\ UNCHANGED <<exportVars, shape, caller, data, mdVars, buf, pos, value, text_content, ext_result, result,
                   fallbackVars>>

\* The document loop condition fails
InnerEnd ==
    /\ pc = "inner"
    /\ inner_pos >= Len(value)
    /\ pc' = "inner_exit"
    /\ UNCHANGED <<exportVars, shape, caller, data, mdVars, extractVars, result, fallbackVars>>

\* After the document loop: `if text_content: break`
InnerExit ==
    /\ pc = "inner_exit"
    /\ pc' = IF Truthy(text_content) THEN "return" ELSE "outer"
    /\ UNCHANGED <<exportVars, shape, caller, data, mdVars, extractVars, result, fallbackVars>>

\* One iteration of the text block loop
TextField ==
    /\ pc = "text"
    /\ text_pos < Len(inner_value)
    /\ LET r == TextIter(inner_value, text_pos) IN
        /\ text_pos' = r.pos
        /\ text_content' = IF r.text_content # NoneVal THEN r.text_content
                           ELSE text_content
        /\ pc' = IF r.brk THEN "text_exit" ELSE "text"
    /\ UNCHANGED <<exportVars, shape, caller, data, mdVars, buf, pos, value, inner_pos, inner_value, ext_result,
                   result, fallbackVars>>

\* The text block loop condition fails
TextEnd ==
    /\ pc = "text"
    /\ text_pos >= Len(inner_value)
    /\ pc' = "text_exit"
    /\ UNCHANGED <<exportVars, shape, caller, data, mdVars, extractVars, result, fallbackVars>>

\* After the text block loop: `if text_content: break`
TextExit ==
    /\ pc = "text_exit"
    /\ pc' = IF Truthy(text_content) THEN "inner_exit" ELSE "inner"
    /\ UNCHANGED <<exportVars, shape, caller, data, mdVars, extractVars, result, fallbackVars>>

\* `return text_content`
ExtractReturn ==
    /\ pc = "return"
    /\ ext_result' = text_content
    /\ pc' = AfterExtract
    /\ UNCHANGED <<exportVars, shape, caller, data, mdVars, buf, pos, value, inner_pos, inner_value, text_pos,
                   text_content, result, fallbackVars>>

\* decode_note_content after the extractor returned
CheckStructured ==
    /\ pc = "check"
    /\ IF UseStructured(ext_result)
       THEN result' = Str(Strip(ext_result.val)) /\ pc' = "done"
       ELSE UNCHANGED result /\ pc' = "fallback"
    /\ UNCHANGED <<exportVars, shape, caller, data, mdVars, extractVars, fallbackVars>>

\* The fallback up to its for loop: gzip step, permissive decode, findall
FallbackStart ==
    /\ pc = "fallback"
    /\ IF FallbackData = Raised
       THEN /\ pc' = "fallback_except"
            /\ UNCHANGED fallbackVars
       ELSE /\ decoded' = DecodeIgnore(FallbackData.val)
            /\ readable_parts' = FindAll(decoded')
            /\ cleaned_parts' = <<>>
            /\ garbage_streak' = 0
            /\ part_idx' = 1
            /\ pc' = "parts"
    /\ UNCHANGED <<exportVars, shape, caller, data, mdVars, extractVars, result>>

\* The except clause of decode_note_content
FallbackExcept ==
    /\ pc = "fallback_except"
    /\ result' = Str(CouldNotDecode)
    /\ pc' = "done"
    /\ UNCHANGED <<exportVars, shape, caller, data, mdVars, extractVars, fallbackVars>>

\* One iteration of `for part in readable_parts`
PartStep ==
    /\ pc = "parts"
    /\ part_idx <= Len(readable_parts)
    /\ LET r == PartIter(readable_parts[part_idx], cleaned_parts, garbage_streak) IN
        /\ cleaned_parts' = r.cleaned
        /\ garbage_streak' = r.streak
        /\ part_idx' = part_idx + 1
        /\ pc' = IF r.brk THEN "join" ELSE "parts"
    /\ UNCHANGED <<exportVars, shape, caller, data, mdVars, extractVars, decoded, readable_parts, result>>

\* The for loop is exhausted
PartsEnd ==
    /\ pc = "parts"
    /\ part_idx > Len(readable_parts)
    /\ pc' = "join"
    /\ UNCHANGED <<exportVars, shape, caller, data, mdVars, extractVars, fallbackVars, result>>

\* The deduplicated join, or the stripped whole text when nothing survived
JoinParts ==
    /\ pc = "join"
    /\ result' = IF cleaned_parts # <<>>
                 THEN Str(Join(Dedup(cleaned_parts, <<>>)))
                 ELSE Str(Strip(decoded))
    /\ pc' = "done"
    /\ UNCHANGED <<exportVars, shape, caller, data, mdVars, extractVars, fallbackVars>>

\* format_as_markdown up to the loop: `if not text: return text`, the split,
\* formatted_lines = [], prev_was_blank = True
FormatEntry ==
    /\ pc = "format_entry"
    /\ IF ~Truthy(text)
       THEN /\ md_result' = text
            /\ pc' = "done"
            /\ UNCHANGED <<lines, line_idx, formatted_lines, prev_was_blank>>
       ELSE /\ lines' = Split(text.val)
            /\ line_idx' = 0
            /\ formatted_lines' = <<>>
            /\ prev_was_blank' = TRUE
            /\ pc' = "lines"
            /\ UNCHANGED md_result
    /\ UNCHANGED <<exportVars, shape, caller, data, text, extractVars, fallbackVars, result>>

\* A loop body that appends nothing for a blank line
LineStepDropBlank ==
    /\ pc = "lines"
    /\ line_idx < Len(lines)
    /\ LET r == FormatLine(lines, line_idx, prev_was_blank) IN
        /\ formatted_lines' = IF r.rule = "blank" THEN formatted_lines
                               ELSE Append(formatted_lines, r.out)
        /\ prev_was_blank' = (r.rule = "blank")
    /\ line_idx' = line_idx + 1
    /\ UNCHANGED <<exportVars, shape, caller, data, text, lines, md_result, pc, extractVars,
                   fallbackVars, result>>

\* A loop body whose default rule leaves prev_was_blank as it was
LineStepKeepFlag ==
    /\ pc = "lines"
    /\ line_idx < Len(lines)
    /\ LET r == FormatLine(lines, line_idx, prev_was_blank) IN
        /\ formatted_lines' = Append(formatted_lines, r.out)
        /\ prev_was_blank' = IF r.rule = "default" THEN prev_was_blank
                              ELSE (r.rule = "blank")
    /\ line_idx' = line_idx + 1
    /\ UNCHANGED <<exportVars, shape, caller, data, text, lines, md_result, pc, extractVars,
                   fallbackVars, result>>

\* One iteration of `for i, line in enumerate(lines)`
LineStep ==
    /\ pc = "lines"
    /\ line_idx < Len(lines)
    /\ LET r == FormatLine(lines, line_idx, prev_was_blank) IN
        /\ formatted_lines' = Append(formatted_lines, r.out)
        /\ prev_was_blank' = (r.rule = "blank")
    /\ line_idx' = line_idx + 1
    /\ UNCHANGED <<exportVars, shape, caller, data, text, lines, md_result, pc, extractVars,
                   fallbackVars, result>>

\* The lines are used up: return '\n'.join(formatted_lines)
LinesEnd ==
    /\ pc = "lines"
    /\ line_idx >= Len(lines)
    /\ md_result' = Str(Join(formatted_lines))
    /\ pc' = "done"
    /\ UNCHANGED <<exportVars, shape, caller, data, text, lines, line_idx, formatted_lines,
                   prev_was_blank, extractVars, fallbackVars, result>>

Next ==
    \/ DecodeEntry
    \/ ExtractEntry
    \/ ExtractExcept
    \/ OuterField
    \/ OuterEnd
    \/ InnerField
    \/ InnerEnd
    \/ InnerExit
    \/ TextField
    \/ TextEnd
    \/ TextExit
    \/ ExtractReturn
    \/ CheckStructured
    \/ FallbackStart
    \/ FallbackExcept
    \/ PartStep
    \/ PartsEnd
    \/ JoinParts
    \/ FormatEntry
    \/ LineStep
    \/ LinesEnd

Spec == Init /\ [][Next]_vars

TypeOK ==
    /\ caller \in {"extract", "decode", "format"}
    /\ line_idx \in 0..Len(lines)
    /\ Len(formatted_lines) = line_idx
    /\ prev_was_blank \in BOOLEAN
    /\ pos >= 0 /\ inner_pos >= 0 /\ text_pos >= 0
    /\ garbage_streak \in 0..StreakLimit

----------------------------------------------------------------------------
(* Properties *)

\* extract_text_from_protobuf has returned (or raised) to its caller
ExtractReturned == pc = "check" \/ (caller = "extract" /\ pc = "done")

\* gzip.decompress raises on the argument
GzipFails == data # NoneVal /\ HasGzipMagic(data.val) /\ GzipDecompress(data.val) = Raised

\* C1: on every input extract_text_from_protobuf returns a string or None and
\* never raises; None gives None, and a gzip decompression failure gives None.
C1_ExtractNeverRaises ==
    /\ ext_result.tag \in {"None", "str"}
    /\ ExtractReturned =>
        /\ data = NoneVal => ext_result = NoneVal
        /\ GzipFails => ext_result = NoneVal

C1_Witness == ExtractReturned /\ GzipFails /\ ext_result = NoneVal

\* C2: a string accepted by the structured path is longer than TextMinLen
\* characters and is printable or contains a newline; a string of TextMinLen
\* or fewer characters is never accepted.
C2_AcceptedIsLong ==
    text_content # NoneVal =>
        /\ Len(text_content.val) > TextMinLen
        /\ IsPrintable(text_content.val) \/ Contains(text_content.val, Newline[1])

\* C3: the document loop and the text block loop move their cursor and stop
\* exactly as the outer loop's wire-type rule does on the same bytes (4 bytes
\* skipped for wire type 5, 8 for wire type 1, no stop).
C3_SameWireRule ==
    [][/\ (pc = "inner" /\ inner_pos < Len(value)) =>
            /\ inner_pos' = OuterIter(value, inner_pos).pos
            /\ OuterIter(value, inner_pos).brk <=> (pc' = "inner_exit")
       /\ (pc = "text" /\ text_pos < Len(inner_value)) =>
            /\ text_pos' = OuterIter(inner_value, text_pos).pos
            /\ OuterIter(inner_value, text_pos).brk
                   <=> (pc' = "text_exit" /\ text_content' = NoneVal)]_vars

\* How a crafted buffer is walked.  At the two inner levels the code stops on
\* every wire type other than 0 and 2, at the outer level on 3, 4, 6 and 7.
Plain(d) == d.gz = 0 /\ d.trunc = 0
OuterScans(d) == d.preO \notin 4..7
DocEntered(d) == OuterScans(d) /\ d.fO = 2 /\ Len(Doc(d)) > DocMinLen
DocScans(d) == DocEntered(d) /\ d.preD \in {0, 1}
BlockEntered(d) == DocScans(d) /\ d.fD = 3 /\ Len(Block(d)) > BlockMinLen
BlockScans(d) == BlockEntered(d) /\ d.preT \in {0, 1}

\* Valid UTF-8, more than TextMinLen characters, printable or with a newline
GoodText(t) ==
    /\ DecodeStrict(t) # Raised
    /\ Len(DecodeStrict(t).val) > TextMinLen
    /\ IsPrintable(DecodeStrict(t).val) \/ Contains(DecodeStrict(t).val, Newline[1])

WellFormed(d) == Plain(d) /\ BlockScans(d) /\ d.fT = 2 /\ GoodText(Texts[d.t1])

\* C4: a buffer with outer field 2 (> DocMinLen bytes) holding field 3
\* (> BlockMinLen bytes) holding a field-2 string that is valid UTF-8, longer
\* than TextMinLen and printable or with a newline, with no stopping field
\* before it, makes the extractor return exactly that string.
C4_WellFormedReturnsText ==
    (ExtractReturned /\ shape.kind = "built" /\ WellFormed(shape.d))
        => ext_result = DecodeStrict(Texts[shape.d.t1])

C4_Witness ==
    /\ ExtractReturned /\ shape.kind = "built" /\ WellFormed(shape.d)
    /\ Contains(ext_result.val, Newline[1])
    /\ ext_result = DecodeStrict(Texts[shape.d.t1])

\* The innermost field-2 payloads a crafted buffer offers, in depth-first order
Candidates(d) ==
    (IF BlockScans(d) /\ d.fT = 2 THEN <<Texts[d.t1]>> ELSE <<>>)
    \o (IF BlockScans(d) /\ d.t2 # 0 THEN <<SecondTexts[d.t2]>> ELSE <<>>)
    \o (IF DocScans(d) /\ d.blk2 # 0 THEN <<SecondTexts[d.blk2]>> ELSE <<>>)
    \o (IF OuterScans(d) /\ d.doc2 # 0 THEN <<SecondTexts[d.doc2]>> ELSE <<>>)

Acceptable(t) == TryCandidate(t) # NoneVal
AcceptableCandidates(d) == SelectSeq(Candidates(d), Acceptable)

FirstAcceptable(d) ==
    IF AcceptableCandidates(d) = <<>> THEN NoneVal
    ELSE DecodeStrict(AcceptableCandidates(d)[1])

\* C5: the extractor returns the first acceptable candidate in depth-first
\* order, and once a candidate is accepted no cursor moves and the accepted
\* string is not replaced.
C5_FirstMatchWins ==
    /\ []((ExtractReturned /\ shape.kind = "built" /\ Plain(shape.d))
            => ext_result = FirstAcceptable(shape.d))
    /\ [][text_content # NoneVal =>
            UNCHANGED <<text_content, pos, inner_pos, text_pos>>]_vars

C5_Witness ==
    /\ ExtractReturned /\ shape.kind = "built" /\ Plain(shape.d)
    /\ Len(AcceptableCandidates(shape.d)) >= 2
    /\ ext_result = DecodeStrict(AcceptableCandidates(shape.d)[1])
    /\ ext_result # DecodeStrict(AcceptableCandidates(shape.d)[2])

\* The buffer the fallback works on: the decompressed data, or the data as
\* given when it is not gzip or does not decompress
WholeBuffer == IF FallbackData = Raised THEN data.val ELSE FallbackData.val

\* C6: on every buffer the fallback path returns the newline-joined surviving
\* runs or, when none survives, the permissively decoded whole buffer trimmed;
\* it never surfaces an error as content.
C6_FallbackNeverFails ==
    (pc = "done" /\ caller = "decode" /\ data # NoneVal /\ ~UseStructured(ext_result))
        => /\ pc # "fallback_except"
           /\ result = IF cleaned_parts # <<>>
                       THEN Str(Join(Dedup(cleaned_parts, <<>>)))
                       ELSE Str(Strip(DecodeIgnore(WholeBuffer)))

\* Every loop body, run on a state its loop condition admits, leaves the
\* cursor further on; read_varint consumes at least one byte and never moves
\* beyond the end of the buffer.
VarintAdvances(d, p) == read_varint(d, p).pos > p /\ read_varint(d, p).pos <= Len(d)

StrictAdvance ==
    /\ (pc = "outer" /\ pos < Len(buf)) =>
          VarintAdvances(buf, pos) /\ OuterIter(buf, pos).pos > pos
    /\ (pc = "inner" /\ inner_pos < Len(value)) =>
          VarintAdvances(value, inner_pos) /\ InnerIter(value, inner_pos).pos > inner_pos
    /\ (pc = "text" /\ text_pos < Len(inner_value)) =>
          VarintAdvances(inner_value, text_pos)
          /\ TextIter(inner_value, text_pos).pos > text_pos

\* What is left of a buffer of length n behind cursor p
Remaining(n, p) == n - Min(p, n)

\* The statements in the order the control flow passes them
PhaseOf(p) ==
    IF p = "format_entry" THEN 12
    ELSE IF p = "lines" THEN 11
    ELSE IF p = "decode_entry" THEN 10
    ELSE IF p = "extract_entry" THEN 9
    ELSE IF p = "extract_except" THEN 8
    ELSE IF p \in {"outer", "inner", "inner_exit", "text", "text_exit"} THEN 7
    ELSE IF p = "return" THEN 6
    ELSE IF p = "check" THEN 5
    ELSE IF p = "fallback" THEN 4
    ELSE IF p = "fallback_except" THEN 3
    ELSE IF p = "parts" THEN 2
    ELSE IF p = "join" THEN 1
    ELSE 0

\* Within the nested loops: innermost first
StageOf(p) ==
    IF p = "text" THEN 4
    ELSE IF p = "text_exit" THEN 3
    ELSE IF p = "inner" THEN 2
    ELSE IF p = "inner_exit" THEN 1
    ELSE 0

\* A measure in the lexicographic order of tuples of naturals: the phase, what
\* the outer, document and text block loops still have to read, the stage,
\* the parts still to classify, and the lines still to format
Rank ==
    <<PhaseOf(pc),
      IF PhaseOf(pc) = 7 THEN Remaining(Len(buf), pos) ELSE 0,
      IF StageOf(pc) >= 2 THEN Remaining(Len(value), inner_pos) ELSE 0,
      IF StageOf(pc) = 4 THEN Remaining(Len(inner_value), text_pos) ELSE 0,
      StageOf(pc),
      IF pc = "parts" THEN Remaining(Len(readable_parts) + 1, part_idx) ELSE 0,
      IF pc = "lines" THEN Remaining(Len(lines), line_idx) ELSE 0>>

LexLess(a, b) ==
    \E i \in 1..Len(a) : a[i] < b[i] /\ \A j \in 1..(i - 1) : a[j] = b[j]

\* C7: every scanning loop (the varint read, the three field walks, the loop
\* over the printable runs, the line loop) strictly advances its cursor or
\* index on each iteration, so every step lowers a well-founded measure and
\* extraction and markdown reconstruction end, whatever the input (truncated
\* varints, lengths beyond the buffer, empty payloads).
C7_LoopsAdvanceAndTerminate ==
    /\ []StrictAdvance
    /\ [][/\ (pc = "outer" /\ pos < Len(buf)) => pos' > pos
          /\ (pc = "inner" /\ inner_pos < Len(value)) => inner_pos' > inner_pos
          /\ (pc = "text" /\ text_pos < Len(inner_value)) => text_pos' > text_pos
          /\ (pc = "parts" /\ part_idx <= Len(readable_parts)) => part_idx' > part_idx
          /\ (pc = "lines" /\ line_idx < Len(lines)) => line_idx' > line_idx
          /\ LexLess(Rank', Rank)]_vars

\* A declared length larger than the rest of the buffer was passed, and the
\* call still ended
C7_Witness == pc = "done" /\ shape.kind = "raw" /\ pos > Len(buf)

NonWhitespace(s) == Cardinality({i \in 1..Len(s) : ~IsSpace(s[i])})

\* C8 as stated: the structured result is returned whenever it has at least
\* ContentMinLen non-whitespace characters, and the fallback runs exactly when
\* the structured parse gave nothing or fewer than that.
C8_AtLeastTenNonWhitespace ==
    [][pc = "check" =>
        IF ext_result # NoneVal /\ NonWhitespace(ext_result.val) >= ContentMinLen
        THEN pc' = "done" /\ result' = ext_result
        ELSE pc' = "fallback"]_vars

\* C8 amended: the structured result is returned, trimmed, whenever its
\* trimmed length exceeds ContentMinLen, and the fallback runs exactly when
\* the structured parse gave nothing or a trimmed length of ContentMinLen or
\* less.
C8_TrimmedLongerThanTen ==
    [][pc = "check" =>
        IF ext_result # NoneVal /\ Len(Strip(ext_result.val)) > ContentMinLen
        THEN pc' = "done" /\ result' = Str(Strip(ext_result.val))
        ELSE pc' = "fallback" /\ result' = result]_vars

C8_Witness ==
    pc = "fallback" /\ ext_result # NoneVal /\ Len(Strip(ext_result.val)) = ContentMinLen

\* C9: the fallback decodes with invalid sequences replaced, not removed, so
\* the runs are those of the text with replacement characters.
C9_InvalidBytesReplaced ==
    pc \in {"parts", "join"} =>
        /\ decoded = DecodeReplace(FallbackData.val)
        /\ readable_parts = FindAll(DecodeReplace(FallbackData.val))

\* The runs the fallback classifies: trimmed and longer than ShortPartLen
IsLongPart(part) == Len(part) > ShortPartLen
Classified(parts) == SelectSeq([i \in 1..Len(parts) |-> Strip(parts[i])], IsLongPart)

\* Index of the run that completes the first streak of StreakLimit garbage
\* runs, or one beyond the end
StreakEnds(c, k) ==
    k >= StreakLimit /\ \A j \in (k - StreakLimit + 1)..k : IsGarbage(c[j])
StopAt(c) ==
    IF \E k \in 1..Len(c) : StreakEnds(c, k)
    THEN MinOf({k \in 1..Len(c) : StreakEnds(c, k)})
    ELSE Len(c) + 1

IsContent(part) == ~IsGarbage(part)
KeptBeforeStop(parts) ==
    SelectSeq(SubSeq(Classified(parts), 1, StopAt(Classified(parts)) - 1), IsContent)

\* Number of garbage runs at the end of c
TrailingGarbage(c) ==
    Cardinality({n \in 1..Len(c) : \A j \in (Len(c) - n + 1)..Len(c) : IsGarbage(c[j])})

BasicPunctuation == {46, 44, 33, 63, 58, 59, 39, 45}

CountOf(part, chars) ==
    Cardinality({i \in 1..Len(part) : IsAlnum(part[i]) \/ part[i] \in chars})

\* The eight rules, the ratio of rules 3 and 4 counting the alphanumeric
\* characters and those of `chars`
GarbageByRules(part, chars) ==
    LET n == Len(part) IN
    \/ n < 10 /\ CountOf(part, {32}) * 10 < 7 * n
    \/ n < 10 /\ ~Contains(part, 32) /\ n < 8 /\ ~(\A i \in 1..n : IsAlpha(part[i]))
    \/ CountOf(part, chars) * 10 < 6 * n
    \/ n < 15 /\ CountOf(part, chars) * 100 < 75 * n
    \/ (\A i \in 1..n : IsBase64Char(part[i])) /\ n >= 10 /\ ~Contains(part, 32)
    \/ Contains(part, 9) /\ n < 30
    \/ n < 20 /\ part[n] \in {104, 40}
    \/ part[1] \in {33, 43, 44, 60, 62, 123, 125, 91, 93} /\ n < 15

\* The loop is about to classify a trimmed run longer than ShortPartLen
Classifying ==
    /\ pc = "parts"
    /\ part_idx <= Len(readable_parts)
    /\ IsLongPart(Strip(readable_parts[part_idx]))

\* C11 as stated: a trimmed run longer than 3 is garbage exactly when one of
\* the eight rules fires, the ratio of rules 3 and 4 counting alphanumeric
\* characters and the punctuation . , ! ? : ; ' - over the length.
C11_EightRules ==
    [][Classifying =>
        ((garbage_streak' = garbage_streak + 1)
            <=> GarbageByRules(Strip(readable_parts[part_idx]), BasicPunctuation))]_vars

\* C11 amended: the same, the ratio of rules 3 and 4 counting the space as
\* well as alphanumeric characters and the punctuation . , ! ? : ; ' -
C11_EightRulesWithSpace ==
    [][Classifying =>
        ((garbage_streak' = garbage_streak + 1)
            <=> GarbageByRules(Strip(readable_parts[part_idx]),
                               BasicPunctuation \cup {32}))]_vars

\* A run kept as content although, without its spaces, fewer than six in ten
\* of its characters are alphanumeric or punctuation
C11_Witness ==
    /\ pc = "join"
    /\ Len(readable_parts) = 1
    /\ cleaned_parts = readable_parts
    /\ CountOf(readable_parts[1], BasicPunctuation) * 10 < 6 * Len(readable_parts[1])

\* The positions of parts that hold a string for the first time
FirstPositions(parts) ==
    {i \in 1..Len(parts) : \A j \in 1..(i - 1) : parts[j] # parts[i]}

\* The strings of parts, each once, in the order of their first occurrence
FirstOccurrences(parts) ==
    LET F == FirstPositions(parts) IN
    [k \in 1..Cardinality(F) |->
        parts[CHOOSE i \in F : Cardinality({j \in F : j < i}) = k - 1]]

\* C12: the runs that survive the filter are emitted each once, in the order
\* of their first occurrence in the buffer, equal strings being duplicates,
\* with one newline between two of them.
C12_DedupJoin ==
    [][(pc = "join" /\ cleaned_parts # <<>>) =>
        /\ cleaned_parts = KeptBeforeStop(readable_parts)
        /\ result' = Str(Join(FirstOccurrences(cleaned_parts)))]_vars

\* Returned from the join with a repeated run dropped and two runs emitted
C12_Witness ==
    /\ pc = "done"
    /\ Len(cleaned_parts) > Len(FirstOccurrences(cleaned_parts))
    /\ Len(FirstOccurrences(cleaned_parts)) >= 2
    /\ result = Str(Join(FirstOccurrences(cleaned_parts)))

\* The three loops of extract_text_from_protobuf run to their end on a
\* buffer: the accepted string, or NoneVal
RECURSIVE TextLoop(_, _)
TextLoop(iv, tp) ==
    IF tp >= Len(iv) THEN NoneVal
    ELSE LET r == TextIter(iv, tp) IN
         IF r.text_content # NoneVal THEN r.text_content
         ELSE IF r.brk THEN NoneVal
         ELSE TextLoop(iv, r.pos)

RECURSIVE InnerLoop(_, _)
InnerLoop(v, ip) ==
    IF ip >= Len(v) THEN NoneVal
    ELSE LET r == InnerIter(v, ip) IN
         IF r.brk THEN NoneVal
         ELSE IF r.enter /\ TextLoop(r.value, 0) # NoneVal THEN TextLoop(r.value, 0)
         ELSE InnerLoop(v, r.pos)

RECURSIVE OuterLoop(_, _)
OuterLoop(d, p) ==
    IF p >= Len(d) THEN NoneVal
    ELSE LET r == OuterIter(d, p) IN
         IF r.brk THEN NoneVal
         ELSE IF r.enter /\ InnerLoop(r.value, 0) # NoneVal THEN InnerLoop(r.value, 0)
         ELSE OuterLoop(d, r.pos)

\* The for loop of the fallback run to its end: the cleaned parts
RECURSIVE PartsLoop(_, _, _, _)
PartsLoop(parts, i, cleaned, streak) ==
    IF i > Len(parts) THEN cleaned
    ELSE LET r == PartIter(parts[i], cleaned, streak) IN
         IF r.brk THEN r.cleaned ELSE PartsLoop(parts, i + 1, r.cleaned, r.streak)

\* decode_note_content on a buffer p without the gzip magic
DecodePlain(p) ==
    LET e == OuterLoop(p, 0)
        c == PartsLoop(FindAll(DecodeIgnore(p)), 1, <<>>, 0)
    IN  IF UseStructured(e) THEN Str(Strip(e.val))
        ELSE IF c # <<>> THEN Str(Join(Dedup(c, <<>>)))
        ELSE Str(Strip(DecodeIgnore(p)))

\* The call has returned
Returned == pc = "done" /\ caller \in {"extract", "decode"} /\ data # NoneVal

\* The buffer is the gzip frame of a payload that has no gzip magic itself
IsFramed == shape.kind = "built" /\ shape.d.gz = 1 /\ ~HasGzipMagic(Truncated(shape.d))

\* C13: on the gzip frame of a payload without the gzip magic both functions
\* return what they return on the payload itself, which is what the loops
\* give on an unframed buffer.
C13_GzipTransparent ==
    /\ (Returned /\ ~HasGzipMagic(data.val)) =>
          IF caller = "extract" THEN ext_result = OuterLoop(data.val, 0)
          ELSE result = DecodePlain(data.val)
    /\ (Returned /\ IsFramed) =>
          IF caller = "extract" THEN ext_result = OuterLoop(Truncated(shape.d), 0)
          ELSE result = DecodePlain(Truncated(shape.d))

\* decode_note_content returned runs found by the fallback in a framed buffer
C13_Witness ==
    /\ Returned /\ IsFramed
    /\ caller = "decode"
    /\ cleaned_parts # <<>>
    /\ result = DecodePlain(Truncated(shape.d))

\* format_as_markdown has returned for a non-empty string
Formatted == pc = "done" /\ caller = "format" /\ Truthy(text)

\* A line of whitespace only, the empty line included
IsBlankLine(line) == \A k \in 1..Len(line) : IsSpace(line[k])

\* C14: the output of format_as_markdown has as many lines as its input; a
\* whitespace-only line gives an empty line at the same index, every other
\* line one non-empty line at the same index.
C14_LineForLine ==
    Formatted =>
        LET in == Split(text.val)
            out == Split(md_result.val)
        IN  /\ Len(out) = Len(in)
            /\ \A k \in 1..Len(in) : (out[k] = <<>>) <=> IsBlankLine(in[k])

\* Returned for a note of MaxLines lines with a whitespace-only line that is
\* not empty, a line before it and a line behind it
C14_Witness ==
    /\ Formatted
    /\ Len(Split(text.val)) >= 3
    /\ Len(Split(md_result.val)) = Len(Split(text.val))
    /\ \E k \in 2..(Len(lines) - 1) :
          /\ lines[k] # <<>> /\ IsBlankLine(lines[k])
          /\ ~IsBlankLine(lines[k - 1]) /\ ~IsBlankLine(lines[k + 1])

\* C15: a non-blank line that starts with a tab has indent level 1 and is
\* emitted behind a two-space indent.
C15_TabIndentsOnce ==
    \A k \in 1..Len(formatted_lines) :
        (StartsWith(lines[k], <<9>>) /\ ~IsBlankLine(lines[k])) =>
            /\ IndentLevel(lines[k]) = 1
            /\ StartsWith(formatted_lines[k], <<32, 32>>)

\* The number of space characters a line starts with
LeadingSpaces(line) ==
    IF \E k \in 1..Len(line) : line[k] # 32
    THEN MinOf({k \in 1..Len(line) : line[k] # 32}) - 1
    ELSE Len(line)

Spaces(n) == [k \in 1..n |-> 32]

\* What follows position p of the line, without its leading whitespace
Behind(line, p) == LStrip(SubSeq(line, p + 1, Len(line)))

\* The line is spaces, one bullet glyph, optional whitespace and content
IsSpacedBullet(line) ==
    /\ LeadingSpaces(line) < Len(line)
    /\ line[LeadingSpaces(line) + 1]
          \in {8226, 45, 42, 9675, 9642, 9656, 9658, 9702, 8227, 8259}
    /\ Behind(line, LeadingSpaces(line) + 1) # <<>>

\* C16: a bullet line with k leading spaces is emitted as 2 * (k div 4)
\* spaces, "- " and the content; with two leading spaces there is no indent.
C16_BulletIndent ==
    \A k \in 1..Len(formatted_lines) :
        IsSpacedBullet(lines[k]) =>
            formatted_lines[k] =
                Spaces(2 * (LeadingSpaces(lines[k]) \div 4)) \o <<45, 32>>
                \o Behind(lines[k], LeadingSpaces(lines[k]) + 1)

\* A bullet behind two spaces emitted without indent, and one behind four
\* spaces emitted behind two
C16_Witness ==
    /\ pc = "done"
    /\ \E k \in 1..Len(formatted_lines) :
          /\ IsSpacedBullet(lines[k]) /\ LeadingSpaces(lines[k]) = 2
          /\ StartsWith(formatted_lines[k], <<45, 32>>)
    /\ \E k \in 1..Len(formatted_lines) :
          /\ IsSpacedBullet(lines[k]) /\ LeadingSpaces(lines[k]) = 4
          /\ StartsWith(formatted_lines[k], <<32, 32, 45, 32>>)

\* The rules in their order
RuleOrder == <<"bullet", "number", "letter", "checkbox", "header", "default">>

\* Rule r applies to line i (0-based) of ls
RuleMatches(r, ls, i, prev_blank) ==
    LET line == ls[i + 1] IN
    IF r = "bullet" THEN BulletMatch(line).ok
    ELSE IF r = "number" THEN NumberMatch(line).ok
    ELSE IF r = "letter" THEN LetterMatch(line).ok /\ Len(Strip(line)) > 3
    ELSE IF r = "checkbox" THEN CheckboxMatch(line).ok
    ELSE IF r = "header"
    THEN HeaderCandidate(Strip(line), prev_blank, i) /\ NextLineAllows(ls, i, Strip(line))
    ELSE TRUE

\* What rule r emits for the line
RuleOutput(r, line) ==
    LET pre == Spaces(2 * IndentLevel(line)) IN
    IF r = "bullet" THEN pre \o <<45, 32>> \o BulletMatch(line).content
    ELSE IF r = "number"
    THEN pre \o NumberMatch(line).num \o <<46, 32>> \o NumberMatch(line).content
    ELSE IF r = "letter" THEN pre \o <<45, 32>> \o LetterMatch(line).content
    ELSE IF r = "checkbox"
    THEN pre \o <<45, 32, 91>>
         \o (IF CheckboxMatch(line).check = 32 THEN <<32>> ELSE <<120>>)
         \o <<93, 32>> \o CheckboxMatch(line).content
    ELSE IF r = "header" THEN <<35, 35, 32>> \o Strip(line)
    ELSE pre \o Strip(line)

\* The first rule of the order that applies
FirstRule(ls, i, prev_blank) ==
    RuleOrder[MinOf({k \in 1..Len(RuleOrder) : RuleMatches(RuleOrder[k], ls, i, prev_blank)})]

\* The loop is about to format a non-blank line
FormattingNonBlank ==
    pc = "lines" /\ line_idx < Len(lines) /\ ~IsBlankLine(lines[line_idx + 1])

\* C17: a non-blank line is formatted by the first rule that applies in the
\* order bullet, numbered, lettered, checkbox, header, default, and by that
\* rule only.
C17_FirstRuleOnly ==
    [][FormattingNonBlank =>
        formatted_lines' =
            Append(formatted_lines,
                   RuleOutput(FirstRule(lines, line_idx, prev_was_blank),
                              lines[line_idx + 1]))]_vars

\* A lettered item that also passes the header tests was emitted as a list
\* item, and a bullet that holds a checkbox as a bullet
C17_Witness ==
    /\ \E k \in 1..Len(formatted_lines) :
          /\ RuleMatches("letter", lines, k - 1, TRUE)
          /\ RuleMatches("header", lines, k - 1, k > 1 /\ IsBlankLine(lines[IF k > 1 THEN k - 1 ELSE 1]))
          /\ formatted_lines[k] = RuleOutput("letter", lines[k])
    /\ \E k \in 1..Len(formatted_lines) :
          /\ BulletMatch(lines[k]).ok
          /\ CheckboxMatch(BulletMatch(lines[k]).content).ok
          /\ formatted_lines[k] = RuleOutput("bullet", lines[k])

\* A to Z, and the capital letters of U+00C0 to U+00DE as well
AsciiCapitals == 65..90
Capitals == AsciiCapitals \cup ((192..222) \ {215})

\* No list rule applies to the line
NoListRule(line) ==
    /\ ~BulletMatch(line).ok
    /\ ~NumberMatch(line).ok
    /\ ~(LetterMatch(line).ok /\ Len(Strip(line)) > 3)
    /\ ~CheckboxMatch(line).ok

\* The conditions under which line i (0-based) of ls is to become a header,
\* `capitals` being the characters that count as an uppercase letter
ShouldPromote(ls, i, capitals) ==
    LET t == Strip(ls[i + 1]) IN
    /\ NoListRule(ls[i + 1])
    /\ i > 0 /\ IsBlankLine(ls[IF i > 0 THEN i ELSE 1])
    /\ Len(t) < 60
    /\ t[Len(t)] \notin {44, 46, 58, 59, 63, 33}
    /\ ~StartsWith(t, <<104, 116, 116, 112>>) /\ ~StartsWith(t, <<119, 119, 119>>)
    /\ t[1] \notin {64, 35}
    /\ t[1] \in capitals
    /\ \/ i + 1 >= Len(ls)
       \/ IsBlankLine(ls[IF i + 1 < Len(ls) THEN i + 2 ELSE 1])
       \/ Len(Strip(ls[IF i + 1 < Len(ls) THEN i + 2 ELSE 1])) > Len(t)

\* The step emits the header of the line when `promote` holds, and what the
\* default rule emits when no list rule applies and `promote` does not hold
HeaderOrDefault(promote) ==
    LET line == lines[line_idx + 1] IN
    /\ promote <=> formatted_lines' = Append(formatted_lines, RuleOutput("header", line))
    /\ (NoListRule(line) /\ ~promote) =>
          formatted_lines' = Append(formatted_lines, RuleOutput("default", line))

\* C18 as stated: a line becomes a "## " header exactly when no list rule
\* matched, the previous line was blank, the trimmed line is shorter than 60
\* characters, ends with none of , . : ; ? !, starts with none of http, www,
\* @, #, starts with an uppercase letter, is not the first line, and the
\* next line is blank, missing or longer when trimmed; otherwise it is
\* emitted by the default rule.
C18_HeaderIff ==
    [][FormattingNonBlank => HeaderOrDefault(ShouldPromote(lines, line_idx, Capitals))]_vars

\* C18 amended: the same, the uppercase letter being one of A to Z.
C18_HeaderIffAscii ==
    [][FormattingNonBlank =>
        HeaderOrDefault(ShouldPromote(lines, line_idx, AsciiCapitals))]_vars

\* A line of 59 characters behind a blank line became a header in front of
\* a longer line
C18_Witness ==
    /\ pc = "done"
    /\ \E k \in 2..(Len(lines) - 1) :
          /\ Len(lines[k]) = HeaderMaxLen - 1
          /\ IsBlankLine(lines[k - 1])
          /\ Len(Strip(lines[k + 1])) > Len(lines[k])
          /\ formatted_lines[k] = RuleOutput("header", lines[k])

\* The first line meets every header condition but that of not being first
FirstLineLooksLikeHeader ==
    /\ Len(lines) >= 1 /\ ~IsBlankLine(lines[1]) /\ NoListRule(lines[1])
    /\ LET t == Strip(lines[1]) IN
        /\ Len(t) < 60
        /\ t[Len(t)] \notin {44, 46, 58, 59, 63, 33}
        /\ t[1] \in AsciiCapitals
        /\ \/ Len(lines) = 1
           \/ IsBlankLine(lines[IF Len(lines) > 1 THEN 2 ELSE 1])
           \/ Len(Strip(lines[IF Len(lines) > 1 THEN 2 ELSE 1])) > Len(t)

\* C19: the first line is never emitted as a header, whatever it looks like
\* and although prev_was_blank starts as true.
C19_FirstLineNoHeader ==
    /\ pc = "lines" /\ line_idx = 0 => prev_was_blank
    /\ (Len(formatted_lines) >= 1 /\ ~IsBlankLine(lines[1])) =>
          /\ formatted_lines[1] # RuleOutput("header", lines[1])
          /\ FirstLineLooksLikeHeader =>
                formatted_lines[1] = RuleOutput("default", lines[1])

\* A first line that meets every other header condition was emitted by the
\* default rule
C19_Witness ==
    /\ pc = "done"
    /\ FirstLineLooksLikeHeader
    /\ formatted_lines[1] = Strip(lines[1])

\* Tab and space; the characters str.isspace() holds for up to U+00FF
TabAndSpace == {9, 32}
WhitespaceChars == {9, 10, 11, 12, 13, 28, 29, 30, 31, 32, 133, 160}

\* Index of the first character of the line that is not in chars
FirstOutside(line, from, chars) ==
    IF \E k \in from..Len(line) : line[k] \notin chars
    THEN MinOf({k \in from..Len(line) : line[k] \notin chars})
    ELSE Len(line) + 1

\* The line read as leading characters of `leads`, digits, '.' or ')',
\* optional whitespace and content
Numbered(line, leads) ==
    LET p == FirstOutside(line, 1, leads)
        q == FirstOutside(line, p, 48..57)
        c == FirstOutside(line, q + 1, WhitespaceChars)
    IN  [ok |-> q > p /\ q < Len(line) /\ line[q] \in {46, 41},
         digits |-> SubSeq(line, p, q - 1),
         content |-> IF c <= Len(line) THEN SubSeq(line, c, Len(line))
                     ELSE IF line = <<>> THEN <<>> ELSE <<line[Len(line)]>>]

\* indent + digits + ". " + content
NumberedOutput(line, leads) ==
    Spaces(2 * IndentLevel(line)) \o Numbered(line, leads).digits \o <<46, 32>>
    \o Numbered(line, leads).content

\* The line has the emitted form: 2n spaces, digits, ". ", content
IsNormalised(line, n) ==
    /\ Numbered(line, {32}).ok
    /\ line = Spaces(2 * n) \o Numbered(line, {32}).digits \o <<46, 32>>
              \o Numbered(line, {32}).content

\* "1)First", "1.   First" and "1. First"
ParenFirst == <<49, 41, 70, 105, 114, 115, 116>>
SpacedFirst == <<49, 46, 32, 32, 32, 70, 105, 114, 115, 116>>
DotFirst == <<49, 46, 32, 70, 105, 114, 115, 116>>

\* C20 as stated: a line of optional leading whitespace, digits, '.' or ')',
\* optional whitespace and content is emitted as indent, the digits, ". "
\* and the content; a line that has that form already is left unchanged.
C20_NumberedNormalised ==
    \A k \in 1..Len(formatted_lines) :
        /\ Numbered(lines[k], WhitespaceChars).ok =>
              formatted_lines[k] = NumberedOutput(lines[k], WhitespaceChars)
        /\ (\E n \in 0..Len(lines[k]) : IsNormalised(lines[k], n)) =>
              formatted_lines[k] = lines[k]

\* C20 amended: a line of optional leading tabs and spaces, digits, '.' or
\* ')', optional whitespace and content is emitted as indent, the digits,
\* ". " and the content; "1)First" and "1.   First" become "1. First", and
\* a line that has that form without indent is left unchanged.
C20_NumberedNormalisedUnindented ==
    \A k \in 1..Len(formatted_lines) :
        /\ Numbered(lines[k], TabAndSpace).ok =>
              formatted_lines[k] = NumberedOutput(lines[k], TabAndSpace)
        /\ lines[k] \in {ParenFirst, SpacedFirst} => formatted_lines[k] = DotFirst
        /\ IsNormalised(lines[k], 0) => formatted_lines[k] = lines[k]

\* "1)First" and "1.   First" were both emitted as "1. First", and that line
\* was then emitted as it is
C20_Witness ==
    /\ pc = "done" /\ Len(lines) = 3
    /\ lines[1] = ParenFirst /\ lines[2] = SpacedFirst
    /\ IsNormalised(lines[3], 0)
    /\ formatted_lines = <<DotFirst, DotFirst, lines[3]>>

\* The line read as leading characters of `leads`, '[', one of x, X and
\* space, ']', optional whitespace and content
Checkbox(line, leads) ==
    LET p == FirstOutside(line, 1, leads)
        c == FirstOutside(line, p + 3, WhitespaceChars)
    IN  IF p + 2 < Len(line) /\ line[p] = 91 /\ line[p + 1] \in {120, 88, 32}
           /\ line[p + 2] = 93
        THEN [ok |-> TRUE, box |-> line[p + 1],
              content |-> IF c <= Len(line) THEN SubSeq(line, c, Len(line))
                          ELSE <<line[Len(line)]>>]
        ELSE [ok |-> FALSE, box |-> 0, content |-> <<>>]

\* indent + "- [x] " + content for x and X, indent + "- [ ] " + content for
\* a space
CheckboxOutput(line, leads) ==
    Spaces(2 * IndentLevel(line))
    \o (IF Checkbox(line, leads).box \in {120, 88}
        THEN <<45, 32, 91, 120, 93, 32>> ELSE <<45, 32, 91, 32, 93, 32>>)
    \o Checkbox(line, leads).content

\* C21 as stated: a line of optional leading whitespace, [x], [X] or [ ],
\* optional whitespace and content is emitted as indent + "- [x] " + content
\* when the box holds x or X and as indent + "- [ ] " + content when it
\* holds a space.
C21_CheckboxEmitted ==
    pc = "done" =>
        \A k \in 1..Len(formatted_lines) :
            Checkbox(lines[k], WhitespaceChars).ok =>
                formatted_lines[k] = CheckboxOutput(lines[k], WhitespaceChars)

\* C21 amended: the same for a line whose leading characters are tabs and
\* spaces.
C21_CheckboxEmittedTabsSpaces ==
    pc = "done" =>
        \A k \in 1..Len(formatted_lines) :
            Checkbox(lines[k], TabAndSpace).ok =>
                formatted_lines[k] = CheckboxOutput(lines[k], TabAndSpace)

\* A box checked with X was emitted as "- [x] " and its content, and an
\* unchecked box behind four spaces as "  - [ ] " and its content
C21_Witness ==
    /\ pc = "done"
    /\ \E k \in 1..Len(formatted_lines) :
          /\ Checkbox(lines[k], TabAndSpace).ok
          /\ Checkbox(lines[k], TabAndSpace).box = 88
          /\ formatted_lines[k] =
                <<45, 32, 91, 120, 93, 32>> \o Checkbox(lines[k], TabAndSpace).content
    /\ \E k \in 1..Len(formatted_lines) :
          /\ Checkbox(lines[k], TabAndSpace).ok
          /\ Checkbox(lines[k], TabAndSpace).box = 32
          /\ LeadingSpaces(lines[k]) = 4
          /\ formatted_lines[k] =
                <<32, 32, 45, 32, 91, 32, 93, 32>>
                \o Checkbox(lines[k], TabAndSpace).content

\* The line read as leading characters of `leads`, one ASCII letter, '.' or
\* ')', optional whitespace and content
Lettered(line, leads) ==
    LET p == FirstOutside(line, 1, leads)
        c == FirstOutside(line, p + 2, WhitespaceChars)
    IN  IF p + 1 < Len(line) /\ IsAsciiAlpha(line[p]) /\ line[p + 1] \in {46, 41}
        THEN [ok |-> TRUE,
              content |-> IF c <= Len(line) THEN SubSeq(line, c, Len(line))
                          ELSE <<line[Len(line)]>>]
        ELSE [ok |-> FALSE, content |-> <<>>]

\* indent + "- " + content, the letter dropped
LetteredOutput(line, leads) ==
    Spaces(2 * IndentLevel(line)) \o <<45, 32>> \o Lettered(line, leads).content

\* The emitted line is a list item: "- " or digits and ". " behind spaces
IsListItem(out) ==
    LET p == FirstOutside(out, 1, {32})
        q == FirstOutside(out, p, 48..57)
    IN  \/ p < Len(out) /\ out[p] = 45 /\ out[p + 1] = 32
        \/ q > p /\ q < Len(out) /\ out[q] = 46 /\ out[q + 1] = 32

\* C22: a line of the lettered shape is emitted as indent + "- " + content
\* only when its trimmed length exceeds 3, and with leading tabs and spaces
\* it is so emitted whenever the trimmed length exceeds 3; a line of the
\* shape whose trimmed length is 3 or less is never emitted as a list item.
C22_LetteredNeedsLength ==
    pc = "done" =>
        \A k \in 1..Len(formatted_lines) :
            /\ Lettered(lines[k], WhitespaceChars).ok =>
                  /\ formatted_lines[k] = LetteredOutput(lines[k], WhitespaceChars)
                        => Len(Strip(lines[k])) > 3
                  /\ Len(Strip(lines[k])) <= 3 => ~IsListItem(formatted_lines[k])
            /\ (Lettered(lines[k], TabAndSpace).ok /\ Len(Strip(lines[k])) > 3) =>
                  formatted_lines[k] = LetteredOutput(lines[k], TabAndSpace)

\* A lettered line of trimmed length 3 became a header, and a longer one a
\* bullet without its letter
C22_Witness ==
    /\ pc = "done"
    /\ \E k \in 1..Len(formatted_lines) :
          /\ Lettered(lines[k], TabAndSpace).ok
          /\ Len(Strip(lines[k])) = 3
          /\ formatted_lines[k] = <<35, 35, 32>> \o lines[k]
    /\ \E k \in 1..Len(formatted_lines) :
          /\ Lettered(lines[k], TabAndSpace).ok
          /\ Len(Strip(lines[k])) > 3
          /\ IsListItem(formatted_lines[k])
          /\ formatted_lines[k] = <<45, 32>> \o Lettered(lines[k], TabAndSpace).content

\* The line scan is under way or over
Scanning == caller = "format" /\ Truthy(text) /\ pc \in {"lines", "done"}

\* C23: during the line scan prev_was_blank is true before the first line
\* and afterwards tells whether the line processed last was blank, whichever
\* rule handled that line.
C23_FlagTracksBlank ==
    Scanning =>
        prev_was_blank = (line_idx = 0 \/ IsBlankLine(lines[IF line_idx = 0 THEN 1 ELSE line_idx]))

\* The flag is false behind a header candidate that the next-line test
\* rejected and the default rule emitted
C23_Witness ==
    /\ pc = "lines" /\ line_idx = 2 /\ Len(lines) = 3
    /\ IsBlankLine(lines[1]) /\ ~IsBlankLine(lines[2])
    /\ NoListRule(lines[2])
    /\ HeaderCandidate(Strip(lines[2]), TRUE, 1)
    /\ ~NextLineAllows(lines, 1, Strip(lines[2]))
    /\ formatted_lines[2] = Strip(lines[2])
    /\ ~prev_was_blank

\* The wire types no level knows
UnknownWire == {3, 4, 6, 7}

\* The wire type of the tag at cursor p of buffer d
WireOf(d, p) == read_varint(d, p).value % 8

\* The tag the loop of the current level is about to read has an unknown
\* wire type
AtUnknown(level, d, p) == pc = level /\ p < Len(d) /\ WireOf(d, p) \in UnknownWire

\* A crafted buffer with an unknown tag in front of the first field of a
\* level that is entered
StopsAt(d, n) ==
    /\ Plain(d) /\ d[n] \in 4..7
    /\ n = "preT" => BlockEntered(d)
    /\ n = "preD" => DocEntered(d)

\* C24: an unknown wire type ends the loop of its level only.  In a text
\* block the block ends and the document loop goes on behind it; in the
\* document sub-message that loop ends and the outer loop goes on behind the
\* sub-message; at the outer level the walk ends.  No exception is raised,
\* and a later sibling of the level above is still found.
C24_UnknownWireEndsLevel ==
    /\ [][/\ AtUnknown("text", inner_value, text_pos) =>
                pc' = "text_exit" /\ text_content' = NoneVal
                /\ UNCHANGED <<inner_pos, pos>>
          /\ (pc = "text_exit" /\ text_content = NoneVal) =>
                pc' = "inner" /\ UNCHANGED <<inner_pos, pos, value>>
          /\ AtUnknown("inner", value, inner_pos) =>
                pc' = "inner_exit" /\ text_content' = NoneVal /\ UNCHANGED pos
          /\ (pc = "inner_exit" /\ text_content = NoneVal) =>
                pc' = "outer" /\ UNCHANGED <<pos, buf>>
          /\ AtUnknown("outer", buf, pos) => pc' = "return"
          /\ pc \in {"outer", "inner", "inner_exit", "text", "text_exit", "return"} =>
                pc' # "extract_except" /\ ext_result' # Raised]_vars
    /\ []((ExtractReturned /\ shape.kind = "built") =>
            /\ (StopsAt(shape.d, "preT") /\ DocScans(shape.d) /\ shape.d.blk2 # 0) =>
                  ext_result = DecodeStrict(SecondTexts[shape.d.blk2])
            /\ (StopsAt(shape.d, "preD") /\ OuterScans(shape.d) /\ shape.d.doc2 # 0) =>
                  ext_result = DecodeStrict(SecondTexts[shape.d.doc2])
            /\ StopsAt(shape.d, "preO") => ext_result = NoneVal)

\* A tag of wire type 6 ended the first text block in front of its string,
\* and the string of the next block of the sub-message was returned
C24_Witness ==
    /\ ExtractReturned /\ shape.kind = "built"
    /\ StopsAt(shape.d, "preT") /\ shape.d.preT = 6
    /\ GoodText(Texts[shape.d.t1]) /\ shape.d.fT = 2
    /\ shape.d.blk2 # 0
    /\ ext_result = DecodeStrict(SecondTexts[shape.d.blk2])

\* The field number of the tag at cursor p of buffer d, and the payload of
\* the length-delimited field that starts there
FieldOf(d, p) == read_varint(d, p).value \div 8
PayloadOf(d, p) ==
    LET l == read_varint(d, read_varint(d, p).pos)
    IN  SubSeq(d, l.pos + 1, Min(l.pos + l.value, Len(d)))

\* Where the cursor stands behind that field: the declared end of the payload
PayloadEnd(d, p) ==
    LET l == read_varint(d, read_varint(d, p).pos) IN l.pos + l.value

\* The field at cursor p is length-delimited, has field number f and a
\* payload of more than n bytes
IsLargeField(d, p, f, n) ==
    WireOf(d, p) = 2 /\ FieldOf(d, p) = f /\ Len(PayloadOf(d, p)) > n

\* The string of the second text block or of the second document of a
\* crafted buffer, whichever the walk reaches first
LaterText(d) ==
    IF DocScans(d) /\ d.blk2 # 0 THEN DecodeStrict(SecondTexts[d.blk2])
    ELSE IF OuterScans(d) /\ d.doc2 # 0 THEN DecodeStrict(SecondTexts[d.doc2])
    ELSE NoneVal

\* C25: the outer loop enters a payload exactly when it is length-delimited,
\* has field number 2 and more than DocMinLen bytes, and the document loop
\* exactly when it is length-delimited, has field number 3 and more than
\* BlockMinLen bytes; the strings under a payload that is not entered are
\* never returned.
C25_EntersOnlyLargeFields ==
    /\ [][/\ (pc = "outer" /\ pos < Len(buf)) =>
                ((pc' = "inner") <=> IsLargeField(buf, pos, 2, 100))
          /\ (pc = "inner" /\ inner_pos < Len(value)) =>
                ((pc' = "text") <=> IsLargeField(value, inner_pos, 3, 50))
          /\ pc' = "text" => pc \in {"inner", "text", "text_exit"}
          /\ pc' = "inner" => pc \in {"outer", "inner", "text_exit"}]_vars
    /\ []((ExtractReturned /\ shape.kind = "built" /\ Plain(shape.d)) =>
            /\ (shape.d.fO # 2 \/ Len(Doc(shape.d)) <= 100) =>
                  ext_result = IF OuterScans(shape.d) /\ shape.d.doc2 # 0
                               THEN DecodeStrict(SecondTexts[shape.d.doc2])
                               ELSE NoneVal
            /\ (DocEntered(shape.d)
                /\ (shape.d.fD # 3 \/ Len(Block(shape.d)) <= 50)) =>
                  ext_result = LaterText(shape.d))

\* A field-3 payload of exactly 50 bytes inside an entered document was not
\* entered, and its acceptable string was not returned
C25_Witness ==
    /\ ExtractReturned /\ shape.kind = "built" /\ Plain(shape.d)
    /\ DocScans(shape.d)
    /\ shape.d.fD = 3 /\ Len(Block(shape.d)) = 50
    /\ shape.d.fT = 2 /\ GoodText(Texts[shape.d.t1])
    /\ ext_result = NoneVal

\* The payload is not valid UTF-8, or decodes to a string that the
\* acceptance test turns down
Rejected(t) == DecodeStrict(t) = Raised \/ ~Accepts(DecodeStrict(t).val)

\* The text block loop is about to read a field-2 string that is rejected
AtRejected ==
    /\ pc = "text" /\ text_pos < Len(inner_value)
    /\ WireOf(inner_value, text_pos) = 2 /\ FieldOf(inner_value, text_pos) = 2
    /\ Rejected(PayloadOf(inner_value, text_pos))

\* The first string of a crafted buffer is reached and rejected
FirstRejected(d) == Plain(d) /\ BlockScans(d) /\ d.fT = 2 /\ Rejected(Texts[d.t1])

\* C26: a field-2 string that is not valid UTF-8, or that fails the
\* acceptance test, is stepped over: the text block loop goes on behind it
\* with nothing accepted and no exception leaves the function, and the next
\* candidate of the block, of a later block or of a later document is
\* returned.
C26_RejectedCandidateSkipped ==
    /\ [][AtRejected =>
            /\ pc' = "text" /\ text_content' = NoneVal
            /\ text_pos' > text_pos
            /\ text_pos' = PayloadEnd(inner_value, text_pos)
            /\ UNCHANGED <<inner_value, inner_pos, pos, ext_result>>]_vars
    /\ []((ExtractReturned /\ shape.kind = "built" /\ FirstRejected(shape.d)) =>
            ext_result = IF shape.d.t2 # 0 THEN DecodeStrict(SecondTexts[shape.d.t2])
                         ELSE LaterText(shape.d))

\* A string that is not valid UTF-8 was stepped over and the next string of
\* the same text block returned
C26_Witness ==
    /\ ExtractReturned /\ shape.kind = "built" /\ FirstRejected(shape.d)
    /\ DecodeStrict(Texts[shape.d.t1]) = Raised
    /\ shape.d.t2 # 0
    /\ ext_result = DecodeStrict(SecondTexts[shape.d.t2])

\* The trimmed runs of 1 to 3 characters among the runs found
ShortRuns ==
    {Strip(readable_parts[i]) : i \in {j \in 1..Len(readable_parts) :
        Len(Strip(readable_parts[j])) \in 1..3}}

\* The loop is about to take a run whose trimmed length is 3 or less
AtShortRun ==
    /\ pc = "parts" /\ part_idx <= Len(readable_parts)
    /\ Len(Strip(readable_parts[part_idx])) <= 3

\* The fallback has returned from its loop
FallbackReturned == pc = "done" /\ caller = "decode" /\ readable_parts # <<>>

\* The lines of the returned string
OutputLines == {Split(result.val)[k] : k \in 1..Len(Split(result.val))}

\* A short run leaves the streak and the accepted parts as they are
ShortRunIsSkipped ==
    [][AtShortRun =>
        /\ UNCHANGED <<garbage_streak, cleaned_parts>>
        /\ pc' = "parts" /\ part_idx' = part_idx + 1]_vars

\* C27 as stated: a run whose trimmed length is 3 or less never appears in
\* the output and never changes the garbage streak.
C27_ShortRunsNeverOutput ==
    /\ ShortRunIsSkipped
    /\ [](FallbackReturned => ShortRuns \cap OutputLines = {})

\* C27 amended: a run whose trimmed length is 3 or less is never one of the
\* accepted parts, of which the output is made whenever there is one, and
\* never changes the garbage streak.
C27_ShortRunsNeverAccepted ==
    /\ ShortRunIsSkipped
    /\ [](/\ \A k \in 1..Len(cleaned_parts) : Len(cleaned_parts[k]) > 3
          /\ (FallbackReturned /\ cleaned_parts # <<>>) =>
                /\ result = Str(Join(FirstOccurrences(cleaned_parts)))
                /\ \A k \in 1..Len(cleaned_parts) : cleaned_parts[k] \notin ShortRuns)

\* Three short runs between two garbage runs left the streak at 2 and the
\* loop ran to its end
C27_Witness ==
    /\ pc = "join" /\ part_idx > Len(readable_parts)
    /\ Len(readable_parts) = 5
    /\ IsGarbage(Strip(readable_parts[1])) /\ IsGarbage(Strip(readable_parts[5]))
    /\ \A k \in 2..4 : Len(Strip(readable_parts[k])) \in 1..3
    /\ garbage_streak = 2

\* The position behind the first byte at or after p whose high bit is clear,
\* or the length of the buffer when there is none
StopIndex(d, p) ==
    IF \E k \in (p + 1)..Len(d) : d[k] < 128
    THEN MinOf({k \in (p + 1)..Len(d) : d[k] < 128})
    ELSE Len(d)

\* The sum of (byte AND 0x7F) * 2^(7 * i) over the bytes p .. e - 1, i being
\* the index of the byte counted from p
RECURSIVE GroupSum(_, _, _)
GroupSum(d, p, e) ==
    IF e <= p THEN 0
    ELSE GroupSum(d, p, e - 1) + (d[e] % 128) * (128 ^ (e - 1 - p))

\* What read_varint has to return when started at p inside the buffer
VarintRight(d, p) ==
    /\ read_varint(d, p).pos = StopIndex(d, p)
    /\ read_varint(d, p).pos > p /\ read_varint(d, p).pos <= Len(d)
    /\ read_varint(d, p).value = GroupSum(d, p, StopIndex(d, p))
    /\ \A k \in (p + 1)..(StopIndex(d, p) - 1) : d[k] >= 128

\* The tag read at cursor p of a loop, and the varint read behind it
ReadsRight(d, p) ==
    p < Len(d) =>
        /\ VarintRight(d, p)
        /\ read_varint(d, p).pos < Len(d) => VarintRight(d, read_varint(d, p).pos)

\* C28: read_varint started inside the buffer consumes the bytes up to and
\* including the first one whose high bit is clear, or up to the end of the
\* buffer, returns the sum of their 7-bit groups, least significant first,
\* and the position behind the last consumed byte, which is never beyond
\* the length of the buffer.
C28_VarintValue ==
    /\ pc = "outer" => ReadsRight(buf, pos)
    /\ pc = "inner" => ReadsRight(value, inner_pos)
    /\ pc = "text" => ReadsRight(inner_value, text_pos)
    /\ (pc = "outer" /\ shape.kind = "raw") =>
          \A p \in 0..(Len(buf) - 1) : VarintRight(buf, p)

\* On the bytes 80 05 FF the tag was read as 5 * 128 from two bytes, and the
\* varint behind it ended with the buffer at the value 127
C28_Witness ==
    /\ pc = "outer" /\ shape.kind = "raw"
    /\ buf = <<128, 5, 255>>
    /\ read_varint(buf, 0) = [value |-> 640, pos |-> 2]
    /\ read_varint(buf, 2) = [value |-> 127, pos |-> 3]
    /\ pos = 3

\* The length-delimited field at cursor p declares more bytes than are left
Overlong(d, p) == p < Len(d) /\ WireOf(d, p) = 2 /\ PayloadEnd(d, p) > Len(d)

\* The bytes of d from the start of the payload of the field at p to the end
RestOf(d, p) ==
    LET from == read_varint(d, read_varint(d, p).pos).pos
    IN  IF from < Len(d) THEN SubSeq(d, from + 1, Len(d)) ELSE <<>>

\* C29: a length-delimited field that declares more bytes than are left at
\* its level gets the remaining bytes as its payload, without an exception;
\* the payload passes through the same field-number and size tests and is
\* entered or accepted as any other, and the loop of that level ends when
\* control is back in it, the cursor being beyond the end of the buffer.
C29_OverlongLengthClamped ==
    [][/\ (pc = "outer" /\ Overlong(buf, pos)) =>
            /\ value' = RestOf(buf, pos)
            /\ pos' = PayloadEnd(buf, pos) /\ pos' > Len(buf)
            /\ pc' = IF FieldOf(buf, pos) = 2 /\ Len(RestOf(buf, pos)) > 100
                      THEN "inner" ELSE "outer"
       /\ (pc = "inner" /\ Overlong(value, inner_pos)) =>
            /\ inner_value' = RestOf(value, inner_pos)
            /\ inner_pos' = PayloadEnd(value, inner_pos) /\ inner_pos' > Len(value)
            /\ pc' = IF FieldOf(value, inner_pos) = 3 /\ Len(RestOf(value, inner_pos)) > 50
                      THEN "text" ELSE "inner"
       /\ (pc = "text" /\ Overlong(inner_value, text_pos)) =>
            /\ text_pos' = PayloadEnd(inner_value, text_pos)
            /\ text_pos' > Len(inner_value)
            /\ text_content' =
                  IF FieldOf(inner_value, text_pos) = 2
                     /\ ~Rejected(RestOf(inner_value, text_pos))
                  THEN DecodeStrict(RestOf(inner_value, text_pos)) ELSE NoneVal
            /\ pc' = IF text_content' = NoneVal THEN "text" ELSE "text_exit"
       /\ (pc = "outer" /\ pos > Len(buf)) => pc' = "return"
       /\ (pc = "inner" /\ inner_pos > Len(value)) => pc' = "inner_exit"
       /\ (pc = "text" /\ text_pos > Len(inner_value)) => pc' = "text_exit"
       /\ pc \in {"outer", "inner", "text"} => pc' # "extract_except"]_vars

\* The end of a buffer was cut off, so that the document, its text block
\* and the string all declared more bytes than were left; each was entered
\* and what was left of the string was returned
C29_Witness ==
    /\ ExtractReturned /\ shape.kind = "built"
    /\ shape.d.trunc > 0 /\ shape.d.gz = 0
    /\ pos > Len(buf) /\ inner_pos > Len(value) /\ text_pos > Len(inner_value)
    /\ ext_result # NoneVal
    /\ ext_result.val =
          SubSeq(DecodeStrict(Texts[shape.d.t1]).val, 1, Len(ext_result.val))
    /\ Len(ext_result.val) < Len(Texts[shape.d.t1])

----------------------------------------------------------------------------
(* main: the name of each note's file *)

\* How many notes one run exports at most
MaxNotes == 2

Untitled == <<85, 110, 116, 105, 116, 108, 101, 100>>
Uncategorized == <<85, 110, 99, 97, 116, 101, 103, 111, 114, 105, 122, 101, 100>>
MdSuffix == <<46, 109, 100>>

\* The characters that re.sub(r'[<>:"/\\|?*]', '_', name) replaces
InvalidChars == {60, 62, 58, 34, 47, 92, 124, 63, 42}

\* re.sub(r'\s+', ' ', name): each run of whitespace becomes one space
RECURSIVE CollapseSpaces(_)
CollapseSpaces(s) ==
    IF s = <<>> THEN <<>>
    ELSE IF IsSpace(s[1]) THEN <<32>> \o CollapseSpaces(LStrip(s))
    ELSE <<s[1]>> \o CollapseSpaces(Tail(s))

sanitize_filename(name) ==
    IF name = <<>> THEN Untitled
    ELSE LET replaced == [i \in 1..Len(name) |->
                             IF name[i] \in InvalidChars THEN 95 ELSE name[i]]
             stripped == Strip(CollapseSpaces(replaced))
             cut == IF Len(stripped) > 100 THEN SubSeq(stripped, 1, 100) ELSE stripped
         IN  IF cut = <<>> THEN Untitled ELSE cut

\* str(n) of a natural number
RECURSIVE DecimalStr(_)
DecimalStr(n) ==
    IF n < 10 THEN <<48 + n>> ELSE DecimalStr(n \div 10) \o <<48 + (n % 10)>>

\* mod_date[:10].replace("-", "") + "-", or "" when the row has no date
DatePrefix(mod_date) ==
    IF mod_date = NoneVal \/ mod_date.val = <<>> THEN <<>>
    ELSE SelectSeq(SubSeq(mod_date.val, 1, Min(10, Len(mod_date.val))),
                   LAMBDA c : c # 45) \o <<45>>

\* The folders of the database: primary key to title
Folders == [k \in {1} |-> <<70>>]

\* folders.get(folder_id, "Uncategorized"), sanitised
FolderName(folder_id) ==
    sanitize_filename(IF folder_id \in DOMAIN Folders THEN Folders[folder_id]
                      ELSE Uncategorized)

\* note_folder / filename, relative to the export directory
PathOf(folder, name) == <<folder, name>>
Path == PathOf(folder_name, filename)

\* The titles (cleaned, two characters at least, no image note): "ab", "ab:1",
\* which is sanitised to the name of a second "ab", and a title with a run of
\* whitespace
Titles == {<<97, 98>>, <<97, 98, 58, 49>>, <<97, 32, 9, 32, 98>>}
\* datetime(...) of the query: NULL or 'YYYY-MM-DD HH:MM:SS'
ModDates == {NoneVal, Str(<<50, 48, 48, 49, 45, 48, 49, 45, 48, 49, 32, 48, 48, 58, 48, 48, 58, 48, 48>>)}
\* ZFOLDER: a folder of the database, or one that is not there (0)
FolderIds == {0, 1}
Notes == [title : Titles, folder_id : FolderIds, mod_date : ModDates]

RECURSIVE NoteSeqs(_)
NoteSeqs(n) ==
    IF n = 0 THEN {<<>>}
    ELSE NoteSeqs(n - 1)
         \cup {Append(q, x) : q \in {r \in NoteSeqs(n - 1) : Len(r) = n - 1}, x \in Notes}

\* Files an earlier run may have left in the folder "F"
ExistingPool ==
    {PathOf(<<70>>, <<50, 48, 48, 49, 48, 49, 48, 49, 45, 97, 98, 46, 109, 100>>), PathOf(<<70>>, <<50, 48, 48, 49, 48, 49, 48, 49, 45, 97, 98, 95, 49, 46, 109, 100>>)}

ExportInit ==
    /\ caller = "export"
    /\ shape = [kind |-> "none", d |-> Base(1), segs |-> <<>>, sep |-> 1]
    /\ data = NoneVal
    /\ text = NoneVal
    /\ pc = "export_note"
    /\ buf = <<>>
    /\ pos = 0
    /\ value = <<>>
    /\ inner_pos = 0
    /\ inner_value = <<>>
    /\ text_pos = 0
    /\ text_content = NoneVal
    /\ ext_result = NoneVal
    /\ decoded = <<>>
    /\ readable_parts = <<>>
    /\ part_idx = 1
    /\ cleaned_parts = <<>>
    /\ garbage_streak = 0
    /\ result = NoneVal
    /\ lines = <<>>
    /\ line_idx = 0
    /\ formatted_lines = <<>>
    /\ prev_was_blank = TRUE
    /\ md_result = NoneVal
    /\ notes \in NoteSeqs(MaxNotes)
    /\ note_idx = 1
    /\ existing \in SUBSET ExistingPool
    /\ fs = existing
    /\ exported = <<>>
    /\ failed_count = 0
    /\ folder_name = <<>>
    /\ filename = <<>>
    /\ counter = 1

decoderVars == <<shape, caller, data, mdVars, extractVars, fallbackVars, result>>

\* for note in notes: the folder, the first file name, counter = 1
ExportNote ==
    /\ pc = "export_note"
    /\ note_idx <= Len(notes)
    /\ LET note == notes[note_idx]
       IN  /\ folder_name' = FolderName(note.folder_id)
           /\ filename' = DatePrefix(note.mod_date) \o sanitize_filename(note.title)
                              \o MdSuffix
    /\ counter' = 1
    /\ pc' = "dup_loop"
    /\ UNCHANGED <<decoderVars, notes, note_idx, existing, fs, exported, failed_count>>

\* while filepath.exists(): one iteration
DupStep ==
    /\ pc = "dup_loop"
    /\ Path \in fs
    /\ LET base_name == SubSeq(filename, 1, Len(filename) - 3)
       IN  filename' = base_name \o <<95>> \o DecimalStr(counter) \o MdSuffix
    /\ counter' = counter + 1
    /\ UNCHANGED <<decoderVars, pc, notes, note_idx, existing, fs, exported, failed_count,
                   folder_name>>

\* A loop that leaves without asking whether the path exists
DupEndUnchecked ==
    /\ pc = "dup_loop"
    /\ pc' = "write"
    /\ UNCHANGED <<decoderVars, exportVars>>

\* while filepath.exists(): the path does not exist, the loop is left
DupEnd ==
    /\ pc = "dup_loop"
    /\ Path \notin fs
    /\ pc' = "write"
    /\ UNCHANGED <<decoderVars, exportVars>>

\* The try block: the file is written and counted, or open() fails and nothing
\* is created, or the write fails behind a file that open() created
WriteFile ==
    /\ pc = "write"
    /\ \E outcome \in {"written", "open_failed", "write_failed"} :
          /\ fs' = IF outcome = "open_failed" THEN fs ELSE fs \cup {Path}
          /\ exported' = IF outcome = "written" THEN Append(exported, Path) ELSE exported
          /\ failed_count' = IF outcome = "written" THEN failed_count
                             ELSE failed_count + 1
    /\ note_idx' = note_idx + 1
    /\ pc' = "export_note"
    /\ UNCHANGED <<decoderVars, notes, existing, folder_name, filename, counter>>

\* The for loop is over
ExportEnd ==
    /\ pc = "export_note"
    /\ note_idx > Len(notes)
    /\ pc' = "done"
    /\ UNCHANGED <<decoderVars, exportVars>>

ExportNext ==
    \/ ExportNote
    \/ DupStep
    \/ DupEnd
    \/ WriteFile
    \/ ExportEnd

ExportSpec == ExportInit /\ [][ExportNext]_vars

ExportStage(p) ==
    IF p = "export_note" THEN 3
    ELSE IF p = "dup_loop" THEN 2
    ELSE IF p = "write" THEN 1
    ELSE 0

\* The length of the longest file name of the export directory
LongestName(files) ==
    IF files = {} THEN 0
    ELSE CHOOSE n \in {Len(p[2]) : p \in files} : \A p \in files : Len(p[2]) <= n

\* A measure of the export in the lexicographic order: the notes still to
\* write, the stage, and how far the file name is from outgrowing every
\* existing name
ExportRank ==
    <<Remaining(Len(notes) + 1, note_idx),
      ExportStage(pc),
      IF pc = "dup_loop" THEN Remaining(LongestName(fs) + 1, Len(filename)) ELSE 0>>

ExportedPaths == {exported[i] : i \in 1..Len(exported)}

\* C30: during one export run, whatever the notes are (notes of the same
\* folder, date and title included), the duplicate-filename loop ends (each
\* iteration makes the name longer, and a name longer than every existing
\* one is free) and leaves with a path that does not exist, the write
\* creates that path and touches no other, so no file that was there before
\* the run or that was written for an earlier note is overwritten, and no
\* two notes of the run are written to the same path.
C30_NoOverwrite ==
    /\ [](pc = "write" => Path \notin fs)
    /\ [](existing \cup ExportedPaths \subseteq fs)
    /\ [](\A i \in 1..Len(exported) :
             /\ exported[i] \notin existing
             /\ \A j \in 1..Len(exported) : i # j => exported[i] # exported[j])
    /\ [][/\ (pc = "dup_loop" /\ pc' = "dup_loop") =>
                 Len(filename') > Len(filename) /\ counter' = counter + 1
          /\ (pc = "dup_loop" /\ pc' = "write") =>
                 Path \notin fs /\ Path' = Path
          /\ pc = "write" =>
                 /\ Path \notin existing \cup ExportedPaths
                 /\ fs \subseteq fs'
                 /\ fs' \subseteq fs \cup {Path}
                 /\ exported' \in {exported, Append(exported, Path)}
          /\ LexLess(ExportRank', ExportRank)]_vars

\* C30, witness: two notes of the same folder, date and title, in a folder
\* where an earlier run left "20010101-ab.md" and "20010101-ab_1.md", were
\* written to "20010101-ab_1_2.md" and "20010101-ab_1_2_3.md"
C30_Witness ==
    /\ pc = "done"
    /\ caller = "export"
    /\ Len(notes) = 2
    /\ notes[1] = notes[2]
    /\ existing = ExistingPool
    /\ exported = <<PathOf(<<70>>, <<50, 48, 48, 49, 48, 49, 48, 49, 45, 97, 98, 95, 49, 95, 50, 46, 109, 100>>), PathOf(<<70>>, <<50, 48, 48, 49, 48, 49, 48, 49, 45, 97, 98, 95, 49, 95, 50, 95, 51, 46, 109, 100>>)>>
    /\ fs = existing \cup ExportedPaths

====
